---------------------------- MODULE Spec2Model ----------------------------
(***************************************************************************)
(* Model of the SQL Data Importer: the sheet reconciler and value          *)
(* validator (src/Config.py, "Data processor"), the store gateway          *)
(* (src/Database.py) and the run orchestrator (src/Gui.py, "Import         *)
(* service").                                                              *)
(*                                                                         *)
(* Cell values are tagged records [k, n, s]: k is the Python/pandas kind   *)
(* of the value ("none" = None, "nan" = float NaN, "int", "float", "str"), *)
(* n the number (in units of half the default comparison threshold, so     *)
(* that 1e-6 is 2 units and 1 is 2,000,000) and s the string.  I(x) is the *)
(* integer x, F(x) the float of x units.                                   *)
(***************************************************************************)
EXTENDS Integers, Sequences, FiniteSets, TLC

\* AppConfig.float_comparison_threshold = 1e-6, in units of 5e-7
FloatThreshold == 2
\* the number 1 in those units
UnitsPerOne == 1000000 * FloatThreshold

None == [k |-> "none", n |-> 0, s |-> ""]
NaN == [k |-> "nan", n |-> 0, s |-> ""]
I(x) == [k |-> "int", n |-> x * UnitsPerOne, s |-> ""]
F(x) == [k |-> "float", n |-> x, s |-> ""]
S(x) == [k |-> "str", n |-> 0, s |-> x]

IsNum(v) == v.k \in {"int", "float"}
\* isinstance(v, float): numpy float64 is a Python float, NaN included
IsFloat(v) == v.k \in {"float", "nan"}

Abs(x) == IF x < 0 THEN -x ELSE x

(***************************************************************************)
(* Strings are atoms in TLA+, so the conversions on them are given by      *)
(* what they do on the strings of the model.                               *)
(***************************************************************************)
\* str.strip() on the tags and headers used below
Strip(x) ==
  CASE x = " T1" -> "T1"
    [] x = "T2 " -> "T2"
    [] x = " Pressure " -> "Pressure"
    [] x = "  " -> ""
    [] OTHER -> x

\* Python '!=' on two cell values: NaN differs from everything, numbers
\* compare by value across int and float, None equals only None
PyNotEqual(a, b) ==
  IF a.k = "nan" \/ b.k = "nan" THEN TRUE
  ELSE IF IsNum(a) /\ IsNum(b) THEN a.n # b.n
  ELSE IF a.k # b.k THEN TRUE
  ELSE IF a.k = "str" THEN a.s # b.s
  ELSE FALSE

\* DataValidator.compare_values: TRUE when the values differ
compare_values(excel_val, sql_val, threshold) ==
  IF excel_val.k = "none" THEN FALSE
  ELSE IF IsFloat(excel_val) /\ IsFloat(sql_val)
  THEN IF excel_val.k = "nan" \/ sql_val.k = "nan" THEN FALSE
       ELSE Abs(excel_val.n - sql_val.n) > threshold
  ELSE PyNotEqual(excel_val, sql_val)

(***************************************************************************)
(* pandas column typing.  A column holds one dtype: int64 when every cell  *)
(* is an integer, float64 when every cell is a number or missing and one   *)
(* is a float or missing (integers become floats, missing becomes NaN),    *)
(* object otherwise (cells keep their Python values).                      *)
(***************************************************************************)
\* the cells of a column, as a set
ColCells(rows, c) == {rows[i][c] : i \in 1..Len(rows)}

\* the dtype pandas infers for a column from its cells (maybe_convert_objects)
InferDtype(cells) ==
  IF \E v \in cells : v.k = "str" THEN "object"
  ELSE IF \A v \in cells : v.k = "none" THEN "object"
  ELSE IF \A v \in cells : v.k = "int" THEN "int64"
  ELSE "float64"

\* a cell as stored in a column of the dtype
Cast(v, dtype) ==
  IF dtype = "float64"
  THEN (IF IsNum(v) THEN F(v.n) ELSE NaN)
  ELSE v

\* every column of the rows in the dtype inferred for it
InferRows(rows, cols) ==
  [i \in 1..Len(rows) |->
     [c \in cols |-> Cast(rows[i][c], InferDtype(ColCells(rows, c)))]]


(***************************************************************************)
(* Sheet reconciler (SheetProcessor) and value validator (DataValidator).  *)
(* A sheet is [name, headers, rows]: headers is the set of raw column      *)
(* headers and each row maps a raw header to the cell pd.read_excel        *)
(* returns (NaN for a blank cell).  A data frame is [cols, rows].          *)
(***************************************************************************)
\* the header clean-up of process_sheet: strip, then drop \n \r \t
CleanHeader(h) ==
  CASE h = "Temp\n(C)" -> "Temp(C)"
    [] OTHER -> Strip(h)

\* column_mapping.get(x, x) on the cleaned header
Canon(cfg, h) ==
  LET x == CleanHeader(h)
  IN  IF x \in DOMAIN cfg.column_mapping THEN cfg.column_mapping[x] ELSE x

\* Series.astype(str) on one cell
AsStr(v) ==
  CASE v.k = "str" -> v.s
    [] v.k = "nan" -> "nan"
    [] v.k = "none" -> "None"
    [] v = I(1) -> "1"
    [] OTHER -> "<number>"

\* pd.to_numeric(errors="coerce") on one cell
ToNumeric(v) ==
  CASE IsNum(v) -> v
    [] v = S("7") -> I(7)
    [] OTHER -> NaN

\* pd.read_excel followed by the renaming of the columns: the rows over the
\* canonical column names, each column in the dtype read_excel inferred
LoadFrame(cfg, sheet) ==
  LET typed == InferRows(sheet.rows, sheet.headers)
      cols == {Canon(cfg, h) : h \in sheet.headers}
      Raw(c) == CHOOSE h \in sheet.headers : Canon(cfg, h) = c
  IN  [cols |-> cols,
       rows |-> [i \in 1..Len(typed) |-> [c \in cols |-> typed[i][Raw(c)]]]]

FilterTags_keeps_unknown(cfg, df, existing_tags) ==
  [cols |-> df.cols,
   rows |-> [i \in 1..Len(df.rows) |->
               [df.rows[i] EXCEPT
                  ![cfg.tag_column] = S(Strip(AsStr(df.rows[i][cfg.tag_column])))]]]

\* df[tag] = df[tag].astype(str).str.strip(); df = df[df[tag].isin(existing_tags)]
FilterTags(cfg, df, existing_tags) ==
  LET t == cfg.tag_column
      trimmed == [i \in 1..Len(df.rows) |->
                    [df.rows[i] EXCEPT ![t] = S(Strip(AsStr(df.rows[i][t])))]]
  IN  [cols |-> df.cols,
       rows |-> SelectSeq(trimmed, LAMBDA r : r[t].s \in existing_tags)]

valid_columns_ignoring_scope(cfg, df) == df.cols \ {cfg.tag_column}

\* the columns compared and updated
valid_columns(cfg, df) ==
  {c \in df.cols : c \in cfg.sql_columns /\ c \notin cfg.ignored_headers}

\* one validation error
ValidationError(sheet_name, tag, col, val) ==
  [sheet_name |-> sheet_name, tag_number |-> tag, excel_header |-> col,
   invalid_value |-> val, error_reason |-> "Type Mismatch - Expected numeric value"]

\* the cells validate_numeric_columns reports: not numeric, not blank
IsTypeError(v) == ToNumeric(v).k = "nan" /\ v.k # "nan" /\ Strip(AsStr(v)) # ""

RECURSIVE ColumnErrors(_, _, _, _, _)
ColumnErrors(sheet_name, tag_column, rows, col, i) ==
  IF i > Len(rows) THEN <<>>
  ELSE (IF IsTypeError(rows[i][col])
        THEN <<ValidationError(sheet_name, rows[i][tag_column].s, col, rows[i][col])>>
        ELSE <<>>)
       \o ColumnErrors(sheet_name, tag_column, rows, col, i + 1)

RECURSIVE NumericErrors(_, _, _, _, _)
NumericErrors(sheet_name, tag_column, df, numeric_columns, j) ==
  IF j > Len(numeric_columns) THEN <<>>
  ELSE (IF numeric_columns[j] \in df.cols
        THEN ColumnErrors(sheet_name, tag_column, df.rows, numeric_columns[j], 1)
        ELSE <<>>)
       \o NumericErrors(sheet_name, tag_column, df, numeric_columns, j + 1)

\* the elements of a sequence, as a set
Range(seq) == {seq[i] : i \in 1..Len(seq)}

\* DataValidator.validate_numeric_columns: the frame with every numeric
\* column converted (int64 or float64), and the conversion failures
validate_numeric_columns(cfg, df, sheet_name) ==
  LET num == Range(cfg.numeric_columns) \cap df.cols
      conv == [i \in 1..Len(df.rows) |->
                 [c \in df.cols |-> IF c \in num THEN ToNumeric(df.rows[i][c])
                                    ELSE df.rows[i][c]]]
      typed == [i \in 1..Len(conv) |->
                  [c \in df.cols |->
                     IF c \in num THEN Cast(conv[i][c], InferDtype(ColCells(conv, c)))
                     ELSE conv[i][c]]]
  IN  [df |-> [cols |-> df.cols, rows |-> typed],
       errors |-> NumericErrors(sheet_name, cfg.tag_column, df, cfg.numeric_columns, 1)]

\* the per-cell step of _clean_dataframe: NaN and "" become None
CleanCell(v) == IF v.k = "nan" \/ v = S("") THEN None ELSE v

\* SheetProcessor._clean_dataframe: df.replace({nan: None}) and then
\* df.map(...), whose result pandas types again column by column: in a
\* column left with numbers and None only, None is NaN again
clean_dataframe(df) ==
  LET cleaned == [i \in 1..Len(df.rows) |->
                    [c \in df.cols |-> CleanCell(df.rows[i][c])]]
  IN  [cols |-> df.cols, rows |-> InferRows(cleaned, df.cols)]

\* a frame without columns or rows: pd.DataFrame()
EmptyFrame == [cols |-> {}, rows |-> <<>>]

SqlMatch_last_first(cfg, sql_df, tag) ==
  LET found == SelectSeq(sql_df.rows, LAMBDA r : ~PyNotEqual(r[cfg.tag_column], S(tag)))
  IN  [j \in 1..Len(found) |-> found[Len(found) + 1 - j]]


\* sql_df[sql_df[tag_column] == tag]: the reference rows of the tag, in order
SqlMatch(cfg, sql_df, tag) ==
  SelectSeq(sql_df.rows, LAMBDA r : ~PyNotEqual(r[cfg.tag_column], S(tag)))

RowChanges_sets_key(cfg, excel_row, sql_row, columns_to_check) ==
  LET differing == {c \in columns_to_check :
                      compare_values(excel_row[c], sql_row[c], cfg.float_threshold)}
  IN  [c \in differing \cup {cfg.tag_column} |-> excel_row[c]]


\* the changes of one row against its reference row
RowChanges(cfg, excel_row, sql_row, columns_to_check) ==
  LET differing == {c \in columns_to_check :
                      compare_values(excel_row[c], sql_row[c], cfg.float_threshold)}
  IN  [c \in differing |-> excel_row[c]]

RECURSIVE UpdatesFrom_emits_empty(_, _, _, _, _)
UpdatesFrom_emits_empty(cfg, rows, sql_df, columns_to_check, i) ==
  IF i > Len(rows) THEN <<>>
  ELSE LET tag == rows[i][cfg.tag_column].s
           sql_match == SqlMatch(cfg, sql_df, tag)
           changes == RowChanges(cfg, rows[i], sql_match[1], columns_to_check)
       IN  (IF sql_match = <<>>
            THEN <<>>
            ELSE <<[tag |-> tag, changes |-> changes]>>)
           \o UpdatesFrom_emits_empty(cfg, rows, sql_df, columns_to_check, i + 1)


RECURSIVE UpdatesFrom(_, _, _, _, _)
UpdatesFrom(cfg, rows, sql_df, columns_to_check, i) ==
  IF i > Len(rows) THEN <<>>
  ELSE LET tag == rows[i][cfg.tag_column].s
           sql_match == SqlMatch(cfg, sql_df, tag)
           changes == RowChanges(cfg, rows[i], sql_match[1], columns_to_check)
       IN  (IF sql_match = <<>> \/ DOMAIN changes = {}
            THEN <<>>
            ELSE <<[tag |-> tag, changes |-> changes]>>)
           \o UpdatesFrom(cfg, rows, sql_df, columns_to_check, i + 1)

\* SheetProcessor._identify_updates on df = df[valid_columns + [tag_column]].
\* Indexing a frame by a column it does not have raises KeyError (so does
\* the reference frame pd.DataFrame() on the first row); when tag_column is
\* itself a valid column, df holds it twice, excel_row[tag_column] is a
\* Series and the comparison with the reference column raises ValueError.
identify_updates(cfg, excel_df, sql_df, columns_to_check) ==
  IF excel_df.rows = <<>> THEN [exc |-> "none", updates |-> <<>>]
  ELSE IF cfg.tag_column \notin sql_df.cols THEN [exc |-> "KeyError", updates |-> <<>>]
  ELSE IF cfg.tag_column \in columns_to_check THEN [exc |-> "ValueError", updates |-> <<>>]
  ELSE IF \E i \in 1..Len(excel_df.rows) :
            /\ SqlMatch(cfg, sql_df, excel_df.rows[i][cfg.tag_column].s) # <<>>
            /\ ~(columns_to_check \subseteq sql_df.cols)
       THEN [exc |-> "KeyError", updates |-> <<>>]
  ELSE [exc |-> "none",
        updates |-> UpdatesFrom(cfg, excel_df.rows, sql_df, columns_to_check, 1)]

\* SheetResult
SheetResult(sheet_name, result, status, update_count) ==
  [sheet_name |-> sheet_name, result |-> result, status |-> status,
   update_count |-> update_count]

\* what process_sheet returns, or the exception it raises
Returned(sheet_result, updates, validation_errors) ==
  [exc |-> "none", sheet_result |-> sheet_result, updates |-> updates,
   validation_errors |-> validation_errors]

Raised(exc) ==
  [exc |-> exc, sheet_result |-> SheetResult("", "", "", 0), updates |-> <<>>,
   validation_errors |-> <<>>]

\* SheetProcessor.process_sheet; read_ok is whether pd.read_excel succeeds
process_sheet(cfg, sheet, read_ok, existing_tags, sql_data) ==
  IF ~read_ok THEN Raised("IOError")
  ELSE
  LET loaded == LoadFrame(cfg, sheet)
  IN  IF cfg.tag_column \notin loaded.cols
      THEN Returned(SheetResult(sheet.name, "Tag Column Missing", "SKIP", 0), <<>>, <<>>)
      ELSE
      LET df == FilterTags(cfg, loaded, existing_tags)
      IN  IF df.rows = <<>>
          THEN Returned(SheetResult(sheet.name, "No Valid Tags", "SKIP", 0), <<>>, <<>>)
          ELSE
          LET valid == valid_columns(cfg, df)
              selected == [cols |-> valid \cup {cfg.tag_column},
                           rows |-> [i \in 1..Len(df.rows) |->
                                       [c \in valid \cup {cfg.tag_column} |-> df.rows[i][c]]]]
              checked == validate_numeric_columns(cfg, selected, sheet.name)
              cleaned == clean_dataframe(checked.df)
              found == identify_updates(cfg, cleaned, sql_data, valid)
          IN  IF cfg.tag_column \in valid /\ cfg.tag_column \in Range(cfg.numeric_columns)
              THEN Raised("TypeError")
              ELSE IF found.exc # "none" THEN Raised(found.exc)
              ELSE Returned(
                     SheetResult(sheet.name,
                                 IF found.updates # <<>> THEN "changes detected"
                                 ELSE "No changes",
                                 "DRY-RUN", Len(found.updates)),
                     found.updates, checked.errors)

(***************************************************************************)
(* Store gateway (DatabaseManager).  The store is the sequence of the      *)
(* table's rows, each a function from the table's columns to a value       *)
(* (None is NULL).  A failure of a statement is an input of the call.      *)
(***************************************************************************)
\* get_existing_tags: set(df[tag_column].astype(str).str.strip())
get_existing_tags(tag_column, store) ==
  {Strip(AsStr(store[i][tag_column])) : i \in 1..Len(store)}

\* the first batch_size elements of a sequence, and the rest
Take(seq, n) == SubSeq(seq, 1, IF n < Len(seq) THEN n ELSE Len(seq))
Drop(seq, n) == SubSeq(seq, (IF n < Len(seq) THEN n ELSE Len(seq)) + 1, Len(seq))

\* the chunks fetch_records_by_tags queries: tags[i:i + batch_size]
RECURSIVE Chunks(_, _)
Chunks(tags, batch_size) ==
  IF tags = <<>> THEN <<>>
  ELSE <<Take(tags, batch_size)>> \o Chunks(Drop(tags, batch_size), batch_size)

\* SELECT * FROM table WHERE [tag_column] IN (chunk): the rows, in table order
SelectIn(tag_column, store, chunk) ==
  SelectSeq(store, LAMBDA r : \E j \in 1..Len(chunk) :
                                 ~PyNotEqual(r[tag_column], S(chunk[j])))

RECURSIVE ConcatChunks(_, _, _, _)
ConcatChunks(tag_column, store, chunks, j) ==
  IF j > Len(chunks) THEN <<>>
  ELSE SelectIn(tag_column, store, chunks[j])
       \o ConcatChunks(tag_column, store, chunks, j + 1)

\* DatabaseManager.fetch_records_by_tags without a failure: no query and
\* pd.DataFrame() for no tags, else the concatenation of the chunks' rows,
\* each column in the dtype pandas gives it (an integer column holding a
\* NULL is float64)
fetch_records_by_tags(tag_column, store_cols, store, tags, batch_size) ==
  IF tags = <<>> THEN EmptyFrame
  ELSE [cols |-> store_cols,
        rows |-> InferRows(ConcatChunks(tag_column, store,
                                        Chunks(tags, batch_size), 1),
                           store_cols)]

ExecUpdate_without_where(tag_column, store, upd) ==
  [i \in 1..Len(store) |->
     [c \in DOMAIN store[i] |->
        IF c \in DOMAIN upd.changes THEN upd.changes[c] ELSE store[i][c]]]


\* UPDATE table SET col = ?, ... WHERE [tag_column] = ?
ExecUpdate(tag_column, store, upd) ==
  [i \in 1..Len(store) |->
     IF ~PyNotEqual(store[i][tag_column], S(upd.tag))
     THEN [c \in DOMAIN store[i] |->
             IF c \in DOMAIN upd.changes THEN upd.changes[c] ELSE store[i][c]]
     ELSE store[i]]

RowCount_one_per_statement(tag_column, store, upd) == 1


\* cursor.rowcount of that statement
RowCount(tag_column, store, upd) ==
  Cardinality({i \in 1..Len(store) : ~PyNotEqual(store[i][tag_column], S(upd.tag))})

\* the statements of a call: one per changeset with changes
Statements(updates) == SelectSeq(updates, LAMBDA u : DOMAIN u.changes # {})

\* the transaction after the first n statements: [store, updated_count]
RECURSIVE Executed(_, _, _, _)
Executed(tag_column, store, stmts, n) ==
  IF n = 0 THEN [store |-> store, updated_count |-> 0]
  ELSE LET before == Executed(tag_column, store, stmts, n - 1)
       IN  [store |-> ExecUpdate(tag_column, before.store, stmts[n]),
            updated_count |-> before.updated_count
                              + RowCount(tag_column, before.store, stmts[n])]

rollback_keeps_executed(committed, pending) == pending

\* conn.rollback(): the transaction's statements are undone.  When
\* rollback() itself raises, nothing was committed either: the table is the
\* same, and the exception that leaves the call is another (rollback_raised)
rollback(committed, pending) == committed

batch_update_records_commits_each(tag_column, store, updates, fail_at) ==
  LET stmts == Statements(updates)
      n == Len(stmts)
  IN  IF fail_at \in 1..(n + 1)
      THEN [exc |-> "DatabaseQueryError",
            store |-> Executed(tag_column, store, stmts, fail_at - 1).store,
            updated_count |-> 0, executed |-> fail_at - 1, committed |-> FALSE]
      ELSE [exc |-> "none",
            store |-> Executed(tag_column, store, stmts, n).store,
            updated_count |-> Executed(tag_column, store, stmts, n).updated_count,
            executed |-> n, committed |-> TRUE]

\* DatabaseManager.batch_update_records.  fail_at = k in 1..n makes the k-th
\* statement fail, fail_at = n + 1 the commit, anything else nothing: a
\* failure rolls the transaction back and raises DatabaseQueryError.
\* Returns the store as committed, the count, the statements executed.
batch_update_records(tag_column, store, updates, fail_at) ==
  LET stmts == Statements(updates)
      n == Len(stmts)
  IN  IF fail_at \in 1..(n + 1)
      THEN [exc |-> "DatabaseQueryError",
            store |-> rollback(store, Executed(tag_column, store, stmts, fail_at - 1).store),
            updated_count |-> 0, executed |-> fail_at - 1, committed |-> FALSE]
      ELSE [exc |-> "none",
            store |-> Executed(tag_column, store, stmts, n).store,
            updated_count |-> Executed(tag_column, store, stmts, n).updated_count,
            executed |-> n, committed |-> TRUE]

(***************************************************************************)
(* Run orchestrator (ImportService).  One sheet of the loop of             *)
(* _process_excel_file: `first' is what the first process_sheet call (on   *)
(* pd.DataFrame()) returned or raised, `faults' the failures of the        *)
(* environment during this sheet.                                          *)
(***************************************************************************)
\* the sheet's entry of the run: what is appended to sheet_results and to
\* all_validation_errors, the totals' increments, the store afterwards, and
\* `ev', the record of what was called
SheetOutcome(store, sheet_result, validation_errors, detected, committed, ev) ==
  [store |-> store, sheet_result |-> sheet_result,
   validation_errors |-> validation_errors, detected |-> detected,
   committed |-> committed, ev |-> ev]

Event(name, passes, fetched, updates, batch_called, batch_committed, failed_in) ==
  [name |-> name, passes |-> passes, fetched |-> fetched, updates |-> updates,
   batch_called |-> batch_called, batch_committed |-> batch_committed,
   failed_in |-> failed_in]

ProcessingError_keeps_status(store, name, passes, fetched, failed_in) ==
  SheetOutcome(store, SheetResult(name, "Processing Error", "DRY-RUN", 0), <<>>, 0, 0,
               Event(name, passes, fetched, <<>>, FALSE, FALSE, failed_in))

\* except Exception (Gui.py 755-761)
ProcessingError(store, name, passes, fetched, failed_in) ==
  SheetOutcome(store, SheetResult(name, "Processing Error", "ERROR", 0), <<>>, 0, 0,
               Event(name, passes, fetched, <<>>, FALSE, FALSE, failed_in))

handle_updates_writes_always(db_cfg, store, ret, dry_run, fail_at, passes, fetched) ==
  LET name == ret.sheet_result.sheet_name
      upd == batch_update_records(db_cfg.tag_column, store, ret.updates, fail_at)
  IN  IF ret.updates = <<>>
      THEN SheetOutcome(store, ret.sheet_result, ret.validation_errors, 0, 0,
                        Event(name, passes, fetched, <<>>, FALSE, FALSE, "none"))
      ELSE SheetOutcome(upd.store, [ret.sheet_result EXCEPT !.status = "UPDATED"],
                        ret.validation_errors, Len(ret.updates), upd.updated_count,
                        Event(name, passes, fetched, ret.updates, TRUE, upd.committed,
                              "none"))

handle_updates_drops_diff(db_cfg, store, ret, dry_run, fail_at, passes, fetched) ==
  LET name == ret.sheet_result.sheet_name
      upd == batch_update_records(db_cfg.tag_column, store, ret.updates, fail_at)
  IN  IF ret.updates = <<>>
      THEN SheetOutcome(store, ret.sheet_result, ret.validation_errors, 0, 0,
                        Event(name, passes, fetched, <<>>, FALSE, FALSE, "none"))
      ELSE IF dry_run
      THEN SheetOutcome(store, ret.sheet_result, ret.validation_errors,
                        Len(ret.updates), 0,
                        Event(name, passes, fetched, ret.updates, FALSE, FALSE, "none"))
      ELSE IF upd.exc = "none"
      THEN SheetOutcome(upd.store, [ret.sheet_result EXCEPT !.status = "UPDATED"],
                        ret.validation_errors, Len(ret.updates), upd.updated_count,
                        Event(name, passes, fetched, ret.updates, TRUE, TRUE, "none"))
      ELSE SheetOutcome(upd.store, SheetResult(name, "Processing Error", "ERROR", 0),
                        ret.validation_errors, Len(ret.updates), 0,
                        Event(name, passes, fetched, ret.updates, TRUE, FALSE, "update"))

handle_updates_counts_rolled_back(db_cfg, store, ret, dry_run, fail_at, passes, fetched) ==
  LET name == ret.sheet_result.sheet_name
      upd == batch_update_records(db_cfg.tag_column, store, ret.updates, fail_at)
  IN  IF ret.updates = <<>>
      THEN SheetOutcome(store, ret.sheet_result, ret.validation_errors, 0, 0,
                        Event(name, passes, fetched, <<>>, FALSE, FALSE, "none"))
      ELSE IF dry_run
      THEN SheetOutcome(store, ret.sheet_result, ret.validation_errors,
                        Len(ret.updates), 0,
                        Event(name, passes, fetched, ret.updates, FALSE, FALSE, "none"))
      ELSE IF upd.exc = "none"
      THEN SheetOutcome(upd.store, [ret.sheet_result EXCEPT !.status = "UPDATED"],
                        ret.validation_errors, Len(ret.updates), upd.updated_count,
                        Event(name, passes, fetched, ret.updates, TRUE, TRUE, "none"))
      ELSE SheetOutcome(upd.store, [ret.sheet_result EXCEPT !.status = "ERROR"],
                        ret.validation_errors, Len(ret.updates), upd.executed,
                        Event(name, passes, fetched, ret.updates, TRUE, FALSE, "update"))


\* "Handle updates" (Gui.py 736-753) on the return value `ret' of the last
\* process_sheet call
handle_updates(db_cfg, store, ret, dry_run, fail_at, passes, fetched) ==
  LET name == ret.sheet_result.sheet_name
      upd == batch_update_records(db_cfg.tag_column, store, ret.updates, fail_at)
  IN  IF ret.updates = <<>>
      THEN SheetOutcome(store, ret.sheet_result, ret.validation_errors, 0, 0,
                        Event(name, passes, fetched, <<>>, FALSE, FALSE, "none"))
      ELSE IF dry_run
      THEN SheetOutcome(store, ret.sheet_result, ret.validation_errors,
                        Len(ret.updates), 0,
                        Event(name, passes, fetched, ret.updates, FALSE, FALSE, "none"))
      ELSE IF upd.exc = "none"
      THEN SheetOutcome(upd.store, [ret.sheet_result EXCEPT !.status = "UPDATED"],
                        ret.validation_errors, Len(ret.updates), upd.updated_count,
                        Event(name, passes, fetched, ret.updates, TRUE, TRUE, "none"))
      ELSE SheetOutcome(upd.store, [ret.sheet_result EXCEPT !.status = "ERROR"],
                        ret.validation_errors, Len(ret.updates), 0,
                        Event(name, passes, fetched, ret.updates, TRUE, FALSE, "update"))

after_update_keeps_result(out, rollback_ok) == out

\* the update step when conn.rollback() raised in the except clause of
\* batch_update_records (Database.py 265-266): that exception leaves the call
\* in place of DatabaseQueryError, passes `except DatabaseQueryError'
\* (Gui.py 746) and is caught by `except Exception' (Gui.py 755-761), after
\* total_detected was raised (Gui.py 738)
after_update(out, rollback_ok) ==
  IF out.ev.failed_in = "update" /\ ~rollback_ok
  THEN SheetOutcome(out.store, SheetResult(out.ev.name, "Processing Error", "ERROR", 0),
                    <<>>, out.detected, 0, [out.ev EXCEPT !.failed_in = "rollback"])
  ELSE out

\* the tags of the first pass's updates: [tag for tag, _ in updates]
TagsOf(updates) == [j \in 1..Len(updates) |-> updates[j].tag]

sheet_body_fetches_always(cfg, db_cfg, store_cols, batch_size, sheet, existing_tags, dry_run, store, first, faults) ==
  IF first.exc # "none"
  THEN ProcessingError(store, sheet.name, 1, FALSE,
                       IF first.exc = "IOError" THEN "load" ELSE "reconcile")
  ELSE IF ~faults.fetch_ok
  THEN ProcessingError(store, sheet.name, 1, FALSE, "fetch")
  ELSE LET sql_data == fetch_records_by_tags(db_cfg.tag_column, store_cols, store,
                                             TagsOf(first.updates), batch_size)
           second == process_sheet(cfg, sheet, faults.read_ok2, existing_tags, sql_data)
       IN  IF second.exc # "none"
           THEN ProcessingError(store, sheet.name, 2, TRUE,
                                IF second.exc = "IOError" THEN "load" ELSE "reconcile")
           ELSE after_update(handle_updates(db_cfg, store, second, dry_run,
                                            faults.fail_at, 2, TRUE),
                             faults.rollback_ok)


\* the body of the loop for an allowed sheet (Gui.py 708-761)
sheet_body(cfg, db_cfg, store_cols, batch_size, sheet, existing_tags, dry_run, store, first, faults) ==
  IF first.exc # "none"
  THEN ProcessingError(store, sheet.name, 1, FALSE,
                       IF first.exc = "IOError" THEN "load" ELSE "reconcile")
  ELSE IF first.updates = <<>>
  THEN after_update(handle_updates(db_cfg, store, first, dry_run, faults.fail_at, 1, FALSE),
                    faults.rollback_ok)
  ELSE IF ~faults.fetch_ok
  THEN ProcessingError(store, sheet.name, 1, FALSE, "fetch")
  ELSE LET sql_data == fetch_records_by_tags(db_cfg.tag_column, store_cols, store,
                                             TagsOf(first.updates), batch_size)
           second == process_sheet(cfg, sheet, faults.read_ok2, existing_tags, sql_data)
       IN  IF second.exc # "none"
           THEN ProcessingError(store, sheet.name, 2, TRUE,
                                IF second.exc = "IOError" THEN "load" ELSE "reconcile")
           ELSE after_update(handle_updates(db_cfg, store, second, dry_run,
                                            faults.fail_at, 2, TRUE),
                             faults.rollback_ok)

\* ImportResult
ImportResult(success, sheet_results, detected, committed, validation_errors, error_report_path, error_message) ==
  [success |-> success, sheet_results |-> sheet_results,
   total_detected_updates |-> detected, total_committed_updates |-> committed,
   validation_errors |-> validation_errors,
   error_report_path |-> error_report_path, error_message |-> error_message]

FailedResult(msg) == ImportResult(FALSE, <<>>, 0, 0, <<>>, "", msg)

run_import_except_database_only(exc) ==
  CASE exc \in {"DatabaseConnectionError", "DatabaseQueryError"} ->
         [raised |-> FALSE, result |-> FailedResult("Database Error")]
    [] exc = "ValueError" ->
         [raised |-> FALSE, result |-> FailedResult("Configuration Error")]
    [] OTHER -> [raised |-> TRUE, result |-> FailedResult("")]

run_import_except_connection_only(exc) ==
  CASE exc = "DatabaseConnectionError" ->
         [raised |-> FALSE, result |-> FailedResult("Database Error")]
    [] exc = "ValueError" ->
         [raised |-> FALSE, result |-> FailedResult("Configuration Error")]
    [] OTHER -> [raised |-> FALSE, result |-> FailedResult("Unexpected Error")]


\* the except clauses of run_import (Gui.py 647-682): what the call does
\* with an exception raised inside its try block
run_import_except(exc) ==
  CASE exc \in {"DatabaseConnectionError", "DatabaseQueryError"} ->
         [raised |-> FALSE, result |-> FailedResult("Database Error")]
    [] exc = "ValueError" ->
         [raised |-> FALSE, result |-> FailedResult("Configuration Error")]
    [] OTHER -> [raised |-> FALSE, result |-> FailedResult("Unexpected Error")]

(***************************************************************************)
(* The inputs of the runs: the store's table, the mapping workbooks and    *)
(* the input workbooks.                                                    *)
(***************************************************************************)
\* runs of one ImportService
MaxRuns == 2
\* AppConfig.batch_size, scaled down
BatchSize == 2
\* statements of one batch update that can be made to fail (0: none)
MaxFailAt == 3

\* DatabaseConfig
DbConfig == [tag_column |-> "Tag Number"]

\* the table: its columns and the numeric ones among them
StoreCols == {"Tag Number", "Count"}
NumericCols == <<"Count">>

StoreRow(tag, count) == ("Tag Number" :> S(tag)) @@ ("Count" :> count)

InitialStores ==
  { <<StoreRow("T1", I(7)), StoreRow("T2", I(3))>>,
    <<StoreRow("T1", I(5)), StoreRow("T2", None)>> }

\* the mapping workbooks: ProcessingConfig as ConfigLoader returns it
ConfigFiles ==
  { [column_mapping |-> ("Cnt" :> "Count"),
     allowed_sheets |-> {"Sensors", "Valves", "Spare"},
     ignored_headers |-> {"Tag Number"}],
    [column_mapping |-> ("Cnt" :> "Count"),
     allowed_sheets |-> {"Sensors", "Valves", "Spare"},
     ignored_headers |-> {}] }

Sheet(name, headers, rows) == [name |-> name, headers |-> headers, rows |-> rows]
Row(tag, cnt) == ("Tag Number" :> S(tag)) @@ ("Cnt" :> cnt)

\* two allowed sheets carrying the same key, and a sheet that is not allowed
WbShared ==
  << Sheet("Sensors", {"Tag Number", "Cnt"}, <<Row("T1", I(5))>>),
     Sheet("Notes", {"Tag Number", "Cnt"}, <<Row("T1", I(9))>>),
     Sheet("Valves", {"Tag Number", "Cnt"}, <<Row(" T1", I(7)), Row("X9", S("abc"))>>) >>

\* a sheet without the tag column, one without a known tag, one with a
\* cell that is not numeric
WbSkips ==
  << Sheet("Spare", {"Cnt"}, <<("Cnt" :> I(1))>>),
     Sheet("Sensors", {"Tag Number", "Cnt"}, <<Row("X9", I(5))>>),
     Sheet("Valves", {"Tag Number", "Cnt"}, <<Row("T2 ", S("abc")), Row("T1", I(5))>>) >>

Workbooks == {WbShared, WbSkips}

\* SheetProcessor's fields, from the mapping workbook and the table metadata
ProcessorConfig(file, sql_columns, numeric_columns) ==
  [column_mapping |-> file.column_mapping, allowed_sheets |-> file.allowed_sheets,
   ignored_headers |-> file.ignored_headers, sql_columns |-> sql_columns,
   numeric_columns |-> numeric_columns, tag_column |-> DbConfig.tag_column,
   float_threshold |-> FloatThreshold]

is_allowed_any_sheet(cfg, sheet_name) == TRUE

\* sheet_name in allowed_sheets (Gui.py 705)
is_allowed(cfg, sheet_name) == sheet_name \in cfg.allowed_sheets

\* return values of process_sheet's type with updates in them
OpenUpdates ==
  { <<[tag |-> "T1", changes |-> ("Count" :> I(0))]>>,
    <<[tag |-> "T1", changes |-> ("Count" :> I(0))],
      [tag |-> "T2", changes |-> ("Count" :> I(0))]>>,
    <<[tag |-> "X9", changes |-> ("Count" :> I(0))]>> }

first_pass_candidates(cfg, sheet, read_ok, existing_tags) ==
  LET actual == process_sheet(cfg, sheet, read_ok, existing_tags,
                              [cols |-> cfg.sql_columns, rows |-> <<>>])
      df == FilterTags(cfg, LoadFrame(cfg, sheet), existing_tags)
  IN  IF actual.exc = "none" /\ actual.sheet_result.status = "DRY-RUN"
      THEN Returned(SheetResult(sheet.name, "changes detected", "DRY-RUN", Len(df.rows)),
                    [j \in 1..Len(df.rows) |->
                       [tag |-> df.rows[j][cfg.tag_column].s,
                        changes |-> ("Count" :> I(0))]],
                    actual.validation_errors)
      ELSE actual

\* the first process_sheet call of a sheet, on pd.DataFrame() (Gui.py 710-716)
first_pass(cfg, sheet, read_ok, existing_tags) ==
  process_sheet(cfg, sheet, read_ok, existing_tags, EmptyFrame)

\* what the first call may return: what it does return, and with open = TRUE
\* any other value of its type
FirstPassReturns(open, cfg, sheet, read_ok, existing_tags) ==
  {first_pass(cfg, sheet, read_ok, existing_tags)}
  \cup (IF open
        THEN {Returned(SheetResult(sheet.name, "changes detected", "DRY-RUN", Len(u)),
                       u, <<>>) : u \in OpenUpdates}
        ELSE {})

SheetFaults ==
  [read_ok1 : BOOLEAN, read_ok2 : BOOLEAN, fetch_ok : BOOLEAN, fail_at : 0..MaxFailAt,
   rollback_ok : BOOLEAN]

(***************************************************************************)
(* State.                                                                  *)
(***************************************************************************)
VARIABLES
  store,           \* the table's committed rows
  connection,      \* db_manager._connection: 0 for None, else the connection
  open_conns,      \* connections opened by connect() and not closed by close()
  pc,              \* where run_import is: "idle" between calls
  run,             \* the locals of the run_import call in progress
  last,            \* the call completed last, until the next call starts
  baseline,        \* a completed call before it that met no failure (kept
                   \* while the first pass is not left open)
  runs,            \* calls completed
  first_pass_open, \* whether the first pass's return value is left open
  db,              \* a batch_update_records call, statement by statement
  sh,              \* a process_sheet call on reference records
  cv,              \* a compare_values call
  gui,             \* the window: buttons, dialogs, callbacks and threads
  fq               \* a fetch_records_by_tags call, query by query

vars == <<store, connection, open_conns, pc, run, last, baseline, runs,
          first_pass_open, db, sh, cv, gui, fq>>

NoRun ==
  [valid |-> FALSE, dry_run |-> FALSE, wb |-> <<>>, file |-> <<>>, store0 |-> <<>>,
   env_fault |-> FALSE, raised |-> FALSE, result |-> FailedResult(""),
   events |-> <<>>, reached_sheets |-> FALSE, report_written |-> FALSE]

IdleRun ==
  [dry_run |-> FALSE, wb |-> <<>>, file |-> <<>>, store0 |-> <<>>, cfg |-> <<>>,
   existing_tags |-> {}, i |-> 1, sheet_results |-> <<>>,
   all_validation_errors |-> <<>>, total_detected |-> 0, total_committed |-> 0,
   events |-> <<>>, env_fault |-> FALSE]

NoDb == [state |-> "unused", store0 |-> <<>>, updates |-> <<>>, committed |-> <<>>,
         pending |-> <<>>, k |-> 0, updated_count |-> 0, commits |-> 0]

NoCv == [state |-> "unused", excel_val |-> None, sql_val |-> None, differ |-> FALSE]

NoFq ==
  [state |-> "unused", tags |-> <<>>, batch_size |-> 1, i |-> 0, queries |-> <<>>,
   result_dfs |-> <<>>, result |-> EmptyFrame]

NoGui ==
  [state |-> "unused", buttons |-> "normal", dialogs |-> <<>>, queue |-> <<>>,
   workers |-> <<>>, manager_connection |-> 0, open |-> {}, next_conn |-> 1,
   test |-> [state |-> "none", conn |-> 0]]

NoSh == [state |-> "unused", cfg |-> <<>>, sheet |-> <<>>, existing_tags |-> {},
         tags |-> <<>>, sql_data |-> EmptyFrame, ret |-> Raised(""),
         store0 |-> <<>>, sql_data2 |-> EmptyFrame, ret2 |-> Raised("")]

InitService(open) ==
  /\ store \in InitialStores
  /\ connection = 0
  /\ open_conns = 0
  /\ pc = "idle"
  /\ run = IdleRun
  /\ last = NoRun
  /\ baseline = NoRun
  /\ runs = 0
  /\ first_pass_open = open
  /\ db = NoDb
  /\ sh = NoSh
  /\ cv = NoCv
  /\ gui = NoGui
  /\ fq = NoFq

\* the service as it is
Init == InitService(FALSE)
\* the service with the first pass's return value left open
InitOpen == InitService(TRUE)

(***************************************************************************)
(* run_import, one stage per action.                                       *)
(***************************************************************************)
next_stage_tags_first(stage) ==
  CASE stage = "idle" -> "load_config"
    [] stage = "load_config" -> "connect"
    [] stage = "connect" -> "tags"
    [] stage = "tags" -> "metadata"
    [] stage = "metadata" -> "open_excel"
    [] stage = "open_excel" -> "sheets"
    [] OTHER -> "idle"

\* the statement that follows a step of run_import which succeeded: Steps 1
\* to 6 in the order of the try block (Gui.py 591-645), the loop over the
\* sheets after the workbook was opened
next_stage(stage) ==
  CASE stage = "idle" -> "load_config"
    [] stage = "load_config" -> "connect"
    [] stage = "connect" -> "metadata"
    [] stage = "metadata" -> "tags"
    [] stage = "tags" -> "open_excel"
    [] stage = "open_excel" -> "sheets"
    [] OTHER -> "idle"

\* the call ends: through `return', or with the exception leaving it
Complete(outcome, reached_sheets, report_written, env_fault) ==
  /\ last' = [valid |-> TRUE, dry_run |-> run.dry_run, wb |-> run.wb,
              file |-> run.file, store0 |-> run.store0, env_fault |-> env_fault,
              raised |-> outcome.raised, result |-> outcome.result,
              events |-> run.events, reached_sheets |-> reached_sheets,
              report_written |-> report_written]
  /\ runs' = runs + 1
  /\ run' = IdleRun
  /\ pc' = "idle"

\* an exception raised in the try block of run_import: the except clauses
\* return a failed result; close() is not called on this path
Abort(exc) ==
  /\ Complete(run_import_except(exc), FALSE, FALSE, TRUE)
  /\ UNCHANGED <<store, baseline, first_pass_open, db, sh, cv, gui, fq>>

\* a call of run_import(excel_path, config_path, dry_run)
StartRun ==
  /\ pc = "idle"
  /\ runs < MaxRuns
  /\ sh.state = "unused" /\ db.state = "unused"
  /\ \E dry_run \in BOOLEAN, wb \in Workbooks, file \in ConfigFiles :
       run' = [IdleRun EXCEPT !.dry_run = dry_run, !.wb = wb, !.file = file,
                              !.store0 = store]
  /\ baseline' = IF last.valid /\ ~last.env_fault /\ ~first_pass_open
                 THEN last ELSE baseline
  /\ last' = NoRun
  /\ pc' = next_stage(pc)
  /\ UNCHANGED <<store, connection, open_conns, runs, first_pass_open, db, sh, cv, gui, fq>>

\* Step 1: ConfigLoader.load_from_excel, which raises ValueError
LoadConfig ==
  /\ pc = "load_config"
  /\ \E ok \in BOOLEAN :
       IF ok
       THEN /\ pc' = next_stage(pc)
            /\ UNCHANGED <<run, last, runs, store, baseline, first_pass_open, db, sh, cv, gui, fq>>
       ELSE Abort("ValueError")
  /\ UNCHANGED <<connection, open_conns>>

\* Step 2: DatabaseManager.connect.  self._connection is assigned over the
\* connection an earlier call left there; whether the runtime closes that one
\* when its last reference goes is left open.
Connect ==
  /\ pc = "connect"
  /\ \E ok \in BOOLEAN, finalized \in (IF connection # 0 THEN BOOLEAN ELSE {FALSE}) :
       IF ok
       THEN /\ connection' = runs + 1
            /\ open_conns' = IF finalized THEN open_conns ELSE open_conns + 1
            /\ pc' = next_stage(pc)
            /\ UNCHANGED <<run, last, runs, store, baseline, first_pass_open, db, sh, cv, gui, fq>>
       ELSE /\ Abort("DatabaseConnectionError")
            /\ UNCHANGED <<connection, open_conns>>

\* Step 3: get_table_metadata; Step 5: the processors are built from it
GetMetadata ==
  /\ pc = "metadata"
  /\ \E ok \in BOOLEAN :
       IF ok
       THEN /\ run' = [run EXCEPT !.cfg = ProcessorConfig(run.file, StoreCols, NumericCols)]
            /\ pc' = next_stage(pc)
            /\ UNCHANGED <<last, runs, store, baseline, first_pass_open, db, sh, cv, gui, fq>>
       ELSE Abort("DatabaseQueryError")
  /\ UNCHANGED <<connection, open_conns>>

\* Step 4: get_existing_tags
GetTags ==
  /\ pc = "tags"
  /\ \E ok \in BOOLEAN :
       IF ok
       THEN /\ run' = [run EXCEPT
                         !.existing_tags = get_existing_tags(DbConfig.tag_column, store)]
            /\ pc' = next_stage(pc)
            /\ UNCHANGED <<last, runs, store, baseline, first_pass_open, db, sh, cv, gui, fq>>
       ELSE Abort("DatabaseQueryError")
  /\ UNCHANGED <<connection, open_conns>>

\* Step 6: _process_excel_file opens the workbook: pd.ExcelFile(excel_path)
OpenExcel ==
  /\ pc = "open_excel"
  /\ \E ok \in BOOLEAN :
       IF ok
       THEN /\ pc' = next_stage(pc)
            /\ UNCHANGED <<run, last, runs, store, baseline, first_pass_open, db, sh, cv, gui, fq>>
       ELSE Abort("IOError")
  /\ UNCHANGED <<connection, open_conns>>

\* the loop over xls.sheet_names: a sheet that is not allowed
SkipSheet ==
  /\ pc = "sheets"
  /\ run.i <= Len(run.wb)
  /\ ~is_allowed(run.cfg, run.wb[run.i].name)
  /\ run' = [run EXCEPT !.i = @ + 1]
  /\ UNCHANGED <<store, connection, open_conns, pc, last, baseline, runs,
                 first_pass_open, db, sh, cv, gui, fq>>

\* the loop over xls.sheet_names: an allowed sheet
ProcessSheet ==
  /\ pc = "sheets"
  /\ run.i <= Len(run.wb)
  /\ is_allowed(run.cfg, run.wb[run.i].name)
  /\ \E faults \in SheetFaults :
       \E first \in FirstPassReturns(first_pass_open, run.cfg, run.wb[run.i],
                                     faults.read_ok1, run.existing_tags) :
         LET out == sheet_body(run.cfg, DbConfig, StoreCols, BatchSize, run.wb[run.i],
                               run.existing_tags, run.dry_run, store, first, faults)
         IN  /\ store' = out.store
             /\ run' = [run EXCEPT
                  !.i = @ + 1,
                  !.sheet_results = Append(@, out.sheet_result),
                  !.all_validation_errors = @ \o out.validation_errors,
                  !.total_detected = @ + out.detected,
                  !.total_committed = @ + out.committed,
                  !.events = Append(@, out.ev),
                  !.env_fault = @ \/ out.ev.failed_in \in {"load", "fetch", "update", "rollback"}]
  /\ UNCHANGED <<connection, open_conns, pc, last, baseline, runs,
                 first_pass_open, db, sh, cv, gui, fq>>

\* DatabaseManager.close
close_connection(conn, n_open) ==
  IF conn # 0 THEN [connection |-> 0, open_conns |-> n_open - 1]
  ELSE [connection |-> conn, open_conns |-> n_open]

\* after the loop: the error report when there are validation errors
\* (generate_error_report returns False when it fails), the ImportResult,
\* Step 7 and close()
Finish ==
  /\ pc = "sheets"
  /\ run.i > Len(run.wb)
  /\ \E report_ok \in BOOLEAN :
       LET errors == run.all_validation_errors
           res == ImportResult(TRUE, run.sheet_results, run.total_detected,
                               run.total_committed, errors,
                               IF errors # <<>> THEN "ImportErrors" ELSE "", "")
       IN  Complete([raised |-> FALSE, result |-> res], TRUE,
                    errors # <<>> /\ report_ok,
                    run.env_fault \/ (errors # <<>> /\ ~report_ok))
  /\ connection' = close_connection(connection, open_conns).connection
  /\ open_conns' = close_connection(connection, open_conns).open_conns
  /\ UNCHANGED <<store, baseline, first_pass_open, db, sh, cv, gui, fq>>

RunNext ==
  \/ StartRun
  \/ LoadConfig
  \/ Connect
  \/ GetMetadata
  \/ GetTags
  \/ OpenExcel
  \/ SkipSheet
  \/ ProcessSheet
  \/ Finish

Spec == Init /\ [][RunNext]_vars
SpecOpen == InitOpen /\ [][RunNext]_vars

(***************************************************************************)
(* batch_update_records, statement by statement: `committed' is the table  *)
(* as other connections see it, `pending' as the call's transaction does.  *)
(***************************************************************************)
\* changesets of a call
MaxUpdates == 3

DbChangesets ==
  { [tag |-> "T1", changes |-> ("Count" :> I(5))],
    [tag |-> "T2", changes |-> ("Count" :> I(9))],
    [tag |-> "T1", changes |-> <<>>],
    [tag |-> "X9", changes |-> ("Count" :> I(1))] }

\* the sequences over a set up to a length
RECURSIVE SeqsUpTo(_, _)
SeqsUpTo(set, n) ==
  IF n = 0 THEN {<<>>}
  ELSE LET shorter == SeqsUpTo(set, n - 1)
       IN  shorter \cup {Append(q, x) : q \in shorter, x \in set}

InitDb ==
  /\ store \in InitialStores
  /\ connection = 1
  /\ open_conns = 1
  /\ pc = "idle"
  /\ run = IdleRun
  /\ last = NoRun
  /\ baseline = NoRun
  /\ runs = 0
  /\ first_pass_open = FALSE
  /\ sh = NoSh
  /\ cv = NoCv
  /\ gui = NoGui
  /\ fq = NoFq
  /\ \E updates \in SeqsUpTo(DbChangesets, MaxUpdates) :
       db = [state |-> "running", store0 |-> store, updates |-> updates,
             committed |-> store, pending |-> store, k |-> 0, updated_count |-> 0,
             commits |-> 0]

\* cursor.execute of the next changeset with changes (Database.py 234-258)
DbExecute ==
  /\ db.state = "running"
  /\ db.k < Len(Statements(db.updates))
  /\ \E ok \in BOOLEAN :
       LET stmt == Statements(db.updates)[db.k + 1]
       IN  IF ok
           THEN db' = [db EXCEPT
                  !.pending = ExecUpdate(DbConfig.tag_column, db.pending, stmt),
                  !.updated_count = @ + RowCount(DbConfig.tag_column, db.pending, stmt),
                  !.k = @ + 1]
           ELSE db' = [db EXCEPT !.pending = rollback(db.committed, db.pending),
                                 !.state = "raised"]
  /\ store' = db'.committed
  /\ UNCHANGED <<connection, open_conns, pc, run, last, baseline, runs,
                 first_pass_open, sh, cv, gui, fq>>

\* conn.commit() after the loop (Database.py 260-267)
DbCommit ==
  /\ db.state = "running"
  /\ db.k = Len(Statements(db.updates))
  /\ \E ok \in BOOLEAN :
       IF ok
       THEN db' = [db EXCEPT !.committed = db.pending, !.commits = @ + 1,
                             !.state = "committed"]
       ELSE db' = [db EXCEPT !.pending = rollback(db.committed, db.pending),
                             !.state = "raised"]
  /\ store' = db'.committed
  /\ UNCHANGED <<connection, open_conns, pc, run, last, baseline, runs,
                 first_pass_open, sh, cv, gui, fq>>

DbNext == DbExecute \/ DbCommit

SpecDb == InitDb /\ [][DbNext]_vars

(***************************************************************************)
(* process_sheet on the reference records of a table with an integer       *)
(* column (Count) and a text column (Note).                                *)
(***************************************************************************)
SheetStoreCols == {"Tag Number", "Count", "Note"}

RefRow(tag, count, note) ==
  ("Tag Number" :> S(tag)) @@ ("Count" :> count) @@ ("Note" :> note)

RefStores ==
  { <<RefRow("T1", c1, n1), RefRow("T2", c2, n2)>> :
      c1 \in {I(5), None}, c2 \in {I(5), I(7), None},
      n1 \in {S("ok")}, n2 \in {S("ok"), None} }
  \cup
  \* a table whose key of the second row has a trailing blank
  { <<RefRow("T1", I(5), S("ok")), RefRow("T2 ", I(7), S("ok"))>> }

SheetConfigs ==
  { [column_mapping |-> ("Cnt" :> "Count"), allowed_sheets |-> {"Sensors"},
     ignored_headers |-> ig, sql_columns |-> SheetStoreCols,
     numeric_columns |-> <<"Count">>, tag_column |-> "Tag Number",
     float_threshold |-> FloatThreshold] :
      ig \in {{"Tag Number"}, {}, {"Tag Number", "Note"}, {"Tag Number", "Count"}} }

SheetRow(tag, cnt, note) ==
  ("Tag Number" :> S(tag)) @@ ("Cnt" :> cnt) @@ ("Note" :> note)

SheetInputs ==
  { Sheet("Sensors", {"Tag Number", "Cnt", "Note"},
          <<SheetRow("T1", c1, n1), SheetRow(t2, c2, n2)>>) :
      c1 \in {NaN, I(5), S("abc")}, n1 \in {NaN, S("ok")},
      t2 \in {"T2 ", "X9", " T1"},
      c2 \in {NaN, S(""), I(5), I(7), S("abc")}, n2 \in {NaN, S(""), S("new")} }
  \cup
  \* sheets with a column that the table does not have
  { Sheet("Sensors", {"Tag Number", "Cnt", "Note", "Remark"},
          <<SheetRow("T1", I(5), S("ok")) @@ ("Remark" :> S("x")),
            SheetRow(t2, c2, n2) @@ ("Remark" :> NaN)>>) :
      t2 \in {"T2 ", "X9", " T1"},
      c2 \in {NaN, S(""), I(5), I(7), S("abc")}, n2 \in {NaN, S(""), S("new")} }

\* the keys of a sheet's rows that pass filtering, in row order: the keys
\* whose reference records are fetched
FilteredTags(cfg, sheet, existing_tags) ==
  LET df == FilterTags(cfg, LoadFrame(cfg, sheet), existing_tags)
  IN  [j \in 1..Len(df.rows) |-> df.rows[j][cfg.tag_column].s]

InitSheet ==
  /\ store \in RefStores
  /\ connection = 1
  /\ open_conns = 1
  /\ pc = "idle"
  /\ run = IdleRun
  /\ last = NoRun
  /\ baseline = NoRun
  /\ runs = 0
  /\ first_pass_open = FALSE
  /\ db = NoDb
  /\ cv = NoCv
  /\ gui = NoGui
  /\ fq = NoFq
  /\ \E cfg \in SheetConfigs, sheet \in SheetInputs :
       LET existing_tags == get_existing_tags(cfg.tag_column, store)
           tags == FilteredTags(cfg, sheet, existing_tags)
       IN  sh = [NoSh EXCEPT
                   !.state = "called", !.cfg = cfg, !.sheet = sheet,
                   !.existing_tags = existing_tags, !.tags = tags,
                   !.sql_data = fetch_records_by_tags(cfg.tag_column, SheetStoreCols,
                                                      store, tags, BatchSize),
                   !.store0 = store]

\* the call returns or raises
CallProcessSheet ==
  /\ sh.state = "called"
  /\ sh' = [sh EXCEPT
        !.ret = process_sheet(sh.cfg, sh.sheet, TRUE, sh.existing_tags, sh.sql_data),
        !.state = "returned"]
  /\ UNCHANGED <<store, connection, open_conns, pc, run, last, baseline, runs,
                 first_pass_open, db, cv, gui, fq>>

\* batch_update_records on the updates the call returned
ApplyUpdates ==
  /\ sh.state = "returned"
  /\ sh.ret.exc = "none"
  /\ sh.ret.updates # <<>>
  /\ \E fail_at \in 0..MaxFailAt :
       LET upd == batch_update_records(sh.cfg.tag_column, store, sh.ret.updates, fail_at)
       IN  /\ store' = upd.store
           /\ sh' = [sh EXCEPT !.state = IF upd.committed THEN "applied" ELSE "failed"]
  /\ UNCHANGED <<connection, open_conns, pc, run, last, baseline, runs,
                 first_pass_open, db, cv, gui, fq>>

\* the same keys are fetched and the same sheet is reconciled again
ProcessSheetAgain ==
  /\ sh.state = "applied"
  /\ LET sql_data == fetch_records_by_tags(sh.cfg.tag_column, SheetStoreCols, store,
                                           sh.tags, BatchSize)
     IN  sh' = [sh EXCEPT
           !.sql_data2 = sql_data,
           !.ret2 = process_sheet(sh.cfg, sh.sheet, TRUE, sh.existing_tags, sql_data),
           !.state = "again"]
  /\ UNCHANGED <<store, connection, open_conns, pc, run, last, baseline, runs,
                 first_pass_open, db, cv, gui, fq>>

SheetNext == CallProcessSheet \/ ApplyUpdates \/ ProcessSheetAgain

SpecSheet == InitSheet /\ [][SheetNext]_vars

(***************************************************************************)
(* compare_values on pairs of values.                                      *)
(***************************************************************************)
\* the values compared: None, NaN, the integers 10 and 11, floats at 10,
\* half a threshold above it, one and a half thresholds above it and at 11,
\* and strings
CompareInputs ==
  { None, NaN, I(10), I(11),
    F(10 * UnitsPerOne), F(10 * UnitsPerOne + 1), F(10 * UnitsPerOne + 3),
    F(11 * UnitsPerOne), S("a"), S("b"), S("10") }

InitCompare ==
  /\ store \in InitialStores
  /\ connection = 0
  /\ open_conns = 0
  /\ pc = "idle"
  /\ run = IdleRun
  /\ last = NoRun
  /\ baseline = NoRun
  /\ runs = 0
  /\ first_pass_open = FALSE
  /\ db = NoDb
  /\ sh = NoSh
  /\ gui = NoGui
  /\ fq = NoFq
  /\ \E a \in CompareInputs, b \in CompareInputs :
       cv = [state |-> "called", excel_val |-> a, sql_val |-> b, differ |-> FALSE]

\* the call returns
CallCompare ==
  /\ cv.state = "called"
  /\ cv' = [cv EXCEPT !.differ = compare_values(cv.excel_val, cv.sql_val, FloatThreshold),
                      !.state = "returned"]
  /\ UNCHANGED <<store, connection, open_conns, pc, run, last, baseline, runs,
                 first_pass_open, db, sh, gui, fq>>

CompareNext == CallCompare

SpecCompare == InitCompare /\ [][CompareNext]_vars

(***************************************************************************)
(* The window (DBImporterApp): the two run buttons, the modal dialogs, the *)
(* callbacks queued with root.after, the worker threads of start_process   *)
(* and the thread of the connection test.  Connections are numbered as     *)
(* pyodbc.connect returns them.                                            *)
(***************************************************************************)
\* clicks that start a run
MaxStarts == 2
\* gateway calls of one run
MaxCalls == 3
\* a run that comes to its end has called get_table_metadata and
\* get_existing_tags
MinCalls == 2

toggle_buttons_keeps_state(g, state) == g

\* toggle_buttons: both buttons get the state
toggle_buttons(g, state) == [g EXCEPT !.buttons = state]

\* the thread of start_process, before its run_import call did anything
Worker(dry_run) ==
  [state |-> "started", dry_run |-> dry_run, conn |-> 0, connects |-> 0, calls |-> 0]

\* start_process: an error box when a file is missing; else the buttons are
\* disabled and the thread is started
start_process(g, dry_run, files_ok) ==
  IF ~files_ok THEN [g EXCEPT !.dialogs = Append(@, "message")]
  ELSE [toggle_buttons(g, "disabled") EXCEPT !.workers = Append(@, Worker(dry_run))]

\* run_import of worker w returned: the thread queues the message box and,
\* in its finally clause, the enabling of the buttons and hide_progress
worker_returned(g, w) ==
  [g EXCEPT !.workers[w].state = "returned",
            !.queue = @ \o <<"message", "enable", "hide">>]

GuiRest == <<store, connection, open_conns, pc, run, last, baseline, runs,
             first_pass_open, db, sh, cv, fq>>

InitGui ==
  /\ store \in InitialStores
  /\ connection = 0
  /\ open_conns = 0
  /\ pc = "idle"
  /\ run = IdleRun
  /\ last = NoRun
  /\ baseline = NoRun
  /\ runs = 0
  /\ first_pass_open = FALSE
  /\ db = NoDb
  /\ sh = NoSh
  /\ cv = NoCv
  /\ gui = [NoGui EXCEPT !.state = "running", !.test.state = "scheduled"]
  /\ fq = NoFq

\* a button takes a click when it is enabled and no modal dialog is open
UserCanClick ==
  /\ gui.state = "running"
  /\ gui.buttons = "normal"
  /\ gui.dialogs = <<>>
  /\ Len(gui.workers) < MaxStarts

\* the button "dry run": start_process(dry_run=True)
ClickDryRun ==
  /\ UserCanClick
  /\ \E files_ok \in BOOLEAN : gui' = start_process(gui, TRUE, files_ok)
  /\ UNCHANGED GuiRest

\* the button "import": confirm_import opens the confirmation dialog
ClickImport ==
  /\ UserCanClick
  /\ gui' = [gui EXCEPT !.dialogs = Append(@, "confirm")]
  /\ UNCHANGED GuiRest

\* the answer to the confirmation dialog: start_process(dry_run=False) on yes
AnswerConfirm ==
  /\ gui.state = "running"
  /\ gui.dialogs # <<>>
  /\ gui.dialogs[Len(gui.dialogs)] = "confirm"
  /\ \E response \in BOOLEAN, files_ok \in BOOLEAN :
       LET closed == [gui EXCEPT !.dialogs = SubSeq(@, 1, Len(@) - 1)]
       IN  gui' = IF response THEN start_process(closed, FALSE, files_ok) ELSE closed
  /\ UNCHANGED GuiRest

\* the user closes a message box
CloseMessage ==
  /\ gui.state = "running"
  /\ gui.dialogs # <<>>
  /\ gui.dialogs[Len(gui.dialogs)] = "message"
  /\ gui' = [gui EXCEPT !.dialogs = SubSeq(@, 1, Len(@) - 1)]
  /\ UNCHANGED GuiRest

\* the main loop runs the next callback queued with root.after(0, ...); it
\* does so also while a modal dialog is open
MainLoop ==
  /\ gui.state = "running"
  /\ gui.queue # <<>>
  /\ LET cb == Head(gui.queue)
         g == [gui EXCEPT !.queue = Tail(@)]
     IN  gui' = CASE cb = "message" -> [g EXCEPT !.dialogs = Append(@, "message")]
                  [] cb = "enable" -> toggle_buttons(g, "normal")
                  [] OTHER -> g
  /\ UNCHANGED GuiRest

\* run_import in a worker, up to connect(): the configuration fails to load,
\* or connect() raises, or it assigns the new connection to
\* db_manager._connection and returns it
WorkerConnect ==
  /\ gui.state = "running"
  /\ \E w \in 1..Len(gui.workers) :
       /\ gui.workers[w].state = "started"
       /\ \E outcome \in {"ValueError", "DatabaseConnectionError", "connected"} :
            gui' = CASE outcome = "ValueError" -> worker_returned(gui, w)
                     [] outcome = "DatabaseConnectionError" ->
                          worker_returned([gui EXCEPT !.workers[w].connects = @ + 1], w)
                     [] OTHER ->
                          [gui EXCEPT !.workers[w].connects = @ + 1,
                                      !.workers[w].conn = gui.next_conn,
                                      !.workers[w].state = "connected",
                                      !.manager_connection = gui.next_conn,
                                      !.open = @ \cup {gui.next_conn},
                                      !.next_conn = @ + 1]
  /\ UNCHANGED GuiRest

\* a gateway call of the run begins on the run's local `conn'
WorkerBeginCall ==
  /\ gui.state = "running"
  /\ \E w \in 1..Len(gui.workers) :
       /\ gui.workers[w].state = "connected"
       /\ gui.workers[w].calls < MaxCalls
       /\ gui' = [gui EXCEPT !.workers[w].state = "in_call"]
  /\ UNCHANGED GuiRest

\* the gateway call returns, or its exception ends run_import in an except
\* clause, which does not close the connection
WorkerEndCall ==
  /\ gui.state = "running"
  /\ \E w \in 1..Len(gui.workers) :
       /\ gui.workers[w].state = "in_call"
       /\ \E ok \in BOOLEAN :
            gui' = IF ok THEN [gui EXCEPT !.workers[w].state = "connected",
                                          !.workers[w].calls = @ + 1]
                   ELSE worker_returned(gui, w)
  /\ UNCHANGED GuiRest

\* the run comes to its end: db_manager.close() closes
\* db_manager._connection
WorkerFinish ==
  /\ gui.state = "running"
  /\ \E w \in 1..Len(gui.workers) :
       /\ gui.workers[w].state = "connected"
       /\ gui.workers[w].calls >= MinCalls
       /\ LET c == close_connection(gui.manager_connection, 0)
          IN  gui' = worker_returned(
                       [gui EXCEPT !.open = @ \ {gui.manager_connection},
                                   !.manager_connection = c.connection], w)
  /\ UNCHANGED GuiRest

\* the thread of auto_check_connection: test_connection opens a connection
\* of its own, or fails
TestConnect ==
  /\ gui.state = "running"
  /\ gui.test.state = "scheduled"
  /\ \E ok \in BOOLEAN :
       gui' = IF ok
              THEN [gui EXCEPT !.test = [state |-> "open", conn |-> gui.next_conn],
                               !.open = @ \cup {gui.next_conn},
                               !.next_conn = @ + 1]
              ELSE [gui EXCEPT !.test.state = "done",
                               !.queue = @ \o <<"status", "log">>]
  /\ UNCHANGED GuiRest

\* test_connection closes its connection and the status label is queued
TestClose ==
  /\ gui.state = "running"
  /\ gui.test.state = "open"
  /\ gui' = [gui EXCEPT !.test.state = "done",
                        !.open = @ \ {gui.test.conn},
                        !.queue = @ \o <<"status">>]
  /\ UNCHANGED GuiRest

GuiNext ==
  \/ ClickDryRun
  \/ ClickImport
  \/ AnswerConfirm
  \/ CloseMessage
  \/ MainLoop
  \/ WorkerConnect
  \/ WorkerBeginCall
  \/ WorkerEndCall
  \/ WorkerFinish
  \/ TestConnect
  \/ TestClose

SpecGui == InitGui /\ [][GuiNext]_vars

(***************************************************************************)
(* fetch_records_by_tags, query by query.                                  *)
(***************************************************************************)
\* tags of a call
MaxTags == 4
\* batch_size of a call
MaxBatch == 3

chunk_at_one_more(tags, i, batch_size) ==
  SubSeq(tags, i + 1, IF i + batch_size + 1 < Len(tags) THEN i + batch_size + 1 ELSE Len(tags))

\* tags[i:i + batch_size]
chunk_at(tags, i, batch_size) ==
  SubSeq(tags, i + 1, IF i + batch_size < Len(tags) THEN i + batch_size ELSE Len(tags))

\* the concatenation of a sequence of sequences: pd.concat(result_dfs)
RECURSIVE Concat(_, _)
Concat(seqs, j) == IF j > Len(seqs) THEN <<>> ELSE seqs[j] \o Concat(seqs, j + 1)

FetchRest == <<store, connection, open_conns, pc, run, last, baseline, runs,
               first_pass_open, db, sh, cv, gui>>

InitFetch ==
  /\ store \in InitialStores
  /\ connection = 1
  /\ open_conns = 1
  /\ pc = "idle"
  /\ run = IdleRun
  /\ last = NoRun
  /\ baseline = NoRun
  /\ runs = 0
  /\ first_pass_open = FALSE
  /\ db = NoDb
  /\ sh = NoSh
  /\ cv = NoCv
  /\ gui = NoGui
  /\ \E tags \in SeqsUpTo({"T1", "T2", "X9"}, MaxTags), batch_size \in 1..MaxBatch :
       fq = [NoFq EXCEPT !.state = "running", !.tags = tags, !.batch_size = batch_size]

\* one turn of the loop over range(0, len(tags), batch_size): the query of
\* the chunk, whose failure ends the call with DatabaseQueryError
FetchQuery ==
  /\ fq.state = "running"
  /\ fq.i < Len(fq.tags)
  /\ \E ok \in BOOLEAN :
       LET chunk == chunk_at(fq.tags, fq.i, fq.batch_size)
       IN  fq' = IF ok
                 THEN [fq EXCEPT
                         !.queries = Append(@, chunk),
                         !.result_dfs = Append(@, SelectIn(DbConfig.tag_column, store, chunk)),
                         !.i = @ + fq.batch_size]
                 ELSE [fq EXCEPT !.queries = Append(@, chunk), !.state = "raised"]
  /\ UNCHANGED FetchRest

\* after the loop: pd.DataFrame() without a chunk, else the concatenation
FetchReturn ==
  /\ fq.state = "running"
  /\ fq.i >= Len(fq.tags)
  /\ fq' = [fq EXCEPT
        !.state = "returned",
        !.result = IF fq.result_dfs = <<>> THEN EmptyFrame
                   ELSE [cols |-> StoreCols,
                         rows |-> InferRows(Concat(fq.result_dfs, 1), StoreCols)]]
  /\ UNCHANGED FetchRest

FetchNext == FetchQuery \/ FetchReturn

SpecFetch == InitFetch /\ [][FetchNext]_vars

(***************************************************************************)
(* process_sheet on reference frames that hold a key twice, or not at all. *)
(***************************************************************************)
\* records of a reference frame
MaxRefRows == 3

RefRecords ==
  { RefRow("T1", I(5), S("ok")), RefRow("T1", I(7), S("new")),
    RefRow("T2", I(5), S("ok")), RefRow("T2", None, None) }

\* the frames read_sql can return for the table: its columns, any records
RefFrames ==
  { [cols |-> SheetStoreCols, rows |-> InferRows(rows, SheetStoreCols)] :
      rows \in SeqsUpTo(RefRecords, MaxRefRows) }

MatchSheets ==
  { s \in SheetInputs : /\ "Remark" \notin s.headers
                        /\ s.rows[1]["Cnt"] = I(5)
                        /\ s.rows[1]["Note"] = S("ok") }

InitMatch ==
  /\ store = <<RefRow("T1", I(5), S("ok")), RefRow("T2", I(5), S("ok"))>>
  /\ connection = 1
  /\ open_conns = 1
  /\ pc = "idle"
  /\ run = IdleRun
  /\ last = NoRun
  /\ baseline = NoRun
  /\ runs = 0
  /\ first_pass_open = FALSE
  /\ db = NoDb
  /\ cv = NoCv
  /\ gui = NoGui
  /\ fq = NoFq
  /\ \E cfg \in {c \in SheetConfigs : c.tag_column \in c.ignored_headers},
        sheet \in MatchSheets, sql_data \in RefFrames :
       sh = [NoSh EXCEPT
               !.state = "called", !.cfg = cfg, !.sheet = sheet,
               !.existing_tags = get_existing_tags(cfg.tag_column, store),
               !.sql_data = sql_data, !.store0 = store]

MatchNext == CallProcessSheet

SpecMatch == InitMatch /\ [][MatchNext]_vars

(***************************************************************************)
(* Properties of run_import.                                               *)
(***************************************************************************)
\* the names of a sequence of sheet results, events or sheets
Names(seq) == [j \in 1..Len(seq) |-> seq[j].name]
ResultNames(seq) == [j \in 1..Len(seq) |-> seq[j].sheet_name]

\* the sheets of a workbook whose names are allowed, in workbook order
AllowedSheets(wb, file) == SelectSeq(wb, LAMBDA s : s.name \in file.allowed_sheets)

\* the rows of a sheet whose key passes filtering against a store
FilteredRows(file, sheet, table) ==
  LET cfg == ProcessorConfig(file, StoreCols, NumericCols)
      df == LoadFrame(cfg, sheet)
  IN  IF cfg.tag_column \in df.cols
      THEN FilterTags(cfg, df, get_existing_tags(cfg.tag_column, table)).rows
      ELSE <<>>

\* a filtered row with a number in Cnt that is not the store's Count
DiffersFromStore(file, sheet, table) ==
  /\ "Count" \notin file.ignored_headers
  /\ \E j \in 1..Len(FilteredRows(file, sheet, table)), m \in 1..Len(table) :
       LET row == FilteredRows(file, sheet, table)[j]
       IN  /\ table[m]["Tag Number"] = row["Tag Number"]
           /\ row["Count"].k = "int"
           /\ table[m]["Count"].k = "int"
           /\ row["Count"].n # table[m]["Count"].n

\* C1: in simulation mode a run never calls batch_update_records, the store
\* stays as it was when the run started, and total_committed_updates is 0,
\* whatever the first pass returned.
C1_SimulationNeverWrites ==
  /\ (pc # "idle" /\ run.dry_run) =>
       /\ store = run.store0
       /\ run.total_committed = 0
       /\ \A j \in 1..Len(run.events) : ~run.events[j].batch_called
  /\ (last.valid /\ last.dry_run) =>
       /\ store = last.store0
       /\ last.result.total_committed_updates = 0
       /\ \A j \in 1..Len(last.events) : ~last.events[j].batch_called

\* a finished simulation run that detected updates
C1_Witness ==
  /\ last.valid /\ last.dry_run /\ last.result.success
  /\ last.result.total_detected_updates > 0
  /\ \E j \in 1..Len(last.events) : last.events[j].updates # <<>>

\* C2: in a finished run, an allowed sheet that was read and has a row whose
\* key passed filtering has its reference records fetched and is reconciled
\* a second time; when a fetch and second read that did not fail find an
\* in-scope number differing from the store's, its changeset list is not
\* empty.
C2_TwoPhaseDiff ==
  (last.valid /\ last.reached_sheets) =>
    \A j \in 1..Len(last.events) :
      LET ev == last.events[j]
          sheet == AllowedSheets(last.wb, last.file)[j]
      IN  (ev.failed_in = "reconcile" \/ ev.failed_in = "none") =>
            /\ FilteredRows(last.file, sheet, last.store0) # <<>> =>
                 (ev.fetched /\ ev.passes = 2)
            /\ DiffersFromStore(last.file, sheet, last.store0) => ev.updates # <<>>

\* C3: a simulation run and a real run of the same workbook and mapping on
\* the same initial store, neither meeting a failure of its environment,
\* report the same changeset list and update_count for every sheet and the
\* same total_detected_updates.
C3_SameDiscrepancies ==
  ( /\ baseline.valid /\ last.valid
    /\ ~baseline.env_fault /\ ~last.env_fault
    /\ baseline.wb = last.wb /\ baseline.file = last.file
    /\ baseline.store0 = last.store0
    /\ baseline.dry_run # last.dry_run ) =>
      /\ Len(baseline.events) = Len(last.events)
      /\ \A j \in 1..Len(last.events) :
           /\ baseline.events[j].updates = last.events[j].updates
           /\ baseline.result.sheet_results[j].update_count
                = last.result.sheet_results[j].update_count
      /\ baseline.result.total_detected_updates = last.result.total_detected_updates

\* a simulation run followed by a real run of the workbook in which two
\* allowed sheets carry the key T1, on the same initial store
C3_Witness ==
  /\ baseline.valid /\ last.valid
  /\ ~baseline.env_fault /\ ~last.env_fault
  /\ baseline.dry_run /\ ~last.dry_run
  /\ baseline.wb = WbShared /\ last.wb = WbShared
  /\ baseline.file = last.file
  /\ baseline.store0 = last.store0
  /\ Len(last.events) = 2
  /\ FilteredRows(last.file, last.wb[1], last.store0) # <<>>
  /\ FilteredRows(last.file, last.wb[3], last.store0) # <<>>

\* C5: a sheet whose load, reconcile, fetch or update failed is recorded
\* with status ERROR, and the loop goes on: a run that entered the loop ends
\* with success and one outcome for every allowed sheet, in order.
C5_FailureIsolation ==
  /\ pc = "sheets" =>
       \A j \in 1..Len(run.events) :
         run.events[j].failed_in # "none" => run.sheet_results[j].status = "ERROR"
  /\ (last.valid /\ last.events # <<>>) =>
       /\ last.reached_sheets
       /\ last.result.success
       /\ ~last.raised
       /\ ResultNames(last.result.sheet_results)
            = Names(AllowedSheets(last.wb, last.file))
       /\ \A j \in 1..Len(last.events) :
            last.events[j].failed_in # "none" =>
              last.result.sheet_results[j].status = "ERROR"

\* a sheet failed in its fetch or its update and a later sheet was
\* reconciled and got an outcome of its own
C5_Witness ==
  /\ last.valid
  /\ \E j, m \in 1..Len(last.events) :
       /\ j < m
       /\ last.events[j].failed_in \in {"fetch", "update"}
       /\ last.events[m].failed_in = "none"
       /\ last.result.sheet_results[m].status \in {"DRY-RUN", "UPDATED"}

\* C6: a run that fails before the loop over the sheets returns success =
\* false and leaves no connection open: self._connection is None after it
\* returns, and there is never more than one open connection.
C6_ConnectionReleased ==
  /\ (last.valid /\ ~last.reached_sheets) =>
       /\ ~last.result.success
       /\ connection = 0
       /\ open_conns = 0
  /\ open_conns <= 1

\* C7: a call of run_import ends by returning an ImportResult, never with an
\* exception leaving it.
C7_NeverRaises ==
  last.valid =>
    /\ ~last.raised
    /\ last.result.success \in BOOLEAN
    /\ last.result.success = last.reached_sheets

\* the workbook could not be opened: an exception that is neither a database
\* error nor a ValueError came back as a failed result
C7_Witness ==
  /\ last.valid
  /\ ~last.raised
  /\ ~last.result.success
  /\ last.result.error_message = "Unexpected Error"

\* C8: in a run that reaches the loop, sheet_results holds one outcome for
\* each workbook sheet that is allowed, in workbook order, and none for
\* another sheet; process_sheet is called for no other sheet.
C8_ExactlyAllowedSheets ==
  /\ pc = "sheets" =>
       /\ ResultNames(run.sheet_results) = Names(run.events)
       /\ \A j \in 1..Len(run.events) : run.events[j].name \in run.file.allowed_sheets
       /\ Names(run.events)
            = Names(AllowedSheets(SubSeq(run.wb, 1, run.i - 1), run.file))
  /\ (last.valid /\ last.reached_sheets) =>
       /\ ResultNames(last.result.sheet_results)
            = Names(AllowedSheets(last.wb, last.file))
       /\ Names(last.events) = Names(AllowedSheets(last.wb, last.file))

\* a finished run of the workbook with the sheet Notes, which is not allowed
C8_Witness ==
  /\ last.valid /\ last.reached_sheets
  /\ last.wb = WbShared
  /\ \E j \in 1..Len(last.wb) : last.wb[j].name \notin last.file.allowed_sheets
  /\ Len(last.result.sheet_results) = 2

\* the outcomes and events of the run in progress or of the one that ended
Outcomes ==
  IF pc = "sheets"
  THEN [dry_run |-> run.dry_run, results |-> run.sheet_results, events |-> run.events]
  ELSE [dry_run |-> last.dry_run, results |-> last.result.sheet_results,
        events |-> IF last.reached_sheets THEN last.events ELSE <<>>]

Blank(v) == v.k = "nan" \/ v = S("")

\* every row of a key has a blank cell under the header that maps to a column
BlankInSheet(cfg, sheet, tag, col) ==
  \A j \in 1..Len(sheet.rows) :
    Strip(AsStr(sheet.rows[j]["Tag Number"])) = tag =>
      \E h \in sheet.headers : Canon(cfg, h) = col /\ Blank(sheet.rows[j][h])

\* C10: no changeset that process_sheet returns has an entry for a column
\* whose cell in the row of that key is blank.
C10_BlankNeverOverwrites ==
  (sh.state # "called" /\ sh.ret.exc = "none") =>
    \A j \in 1..Len(sh.ret.updates) :
      \A col \in DOMAIN sh.ret.updates[j].changes :
        ~BlankInSheet(sh.cfg, sh.sheet, sh.ret.updates[j].tag, col)

(***************************************************************************)
(* Properties of compare_values.                                           *)
(***************************************************************************)
\* C15: with a source value that is present, two numbers of whatever kind
\* differ exactly when they are more than the threshold apart, and any
\* other pair differs exactly when the values are unequal.
C15_ToleranceOnNumbers ==
  (cv.state = "returned" /\ cv.excel_val.k \notin {"none", "nan"}) =>
    IF IsNum(cv.excel_val) /\ IsNum(cv.sql_val)
    THEN cv.differ = (Abs(cv.excel_val.n - cv.sql_val.n) > FloatThreshold)
    ELSE cv.differ = (cv.excel_val # cv.sql_val)

\* C11: a key that is not among the store's keys is the key of no changeset
\* and of no validation error that process_sheet returns.
C11_KeyFiltering ==
  (sh.state # "called" /\ sh.ret.exc = "none") =>
    /\ \A j \in 1..Len(sh.ret.updates) : sh.ret.updates[j].tag \in sh.existing_tags
    /\ \A j \in 1..Len(sh.ret.validation_errors) :
         sh.ret.validation_errors[j].tag_number \in sh.existing_tags

\* a sheet whose second row has the unknown key X9 and a cell that is not a
\* number, reconciled with a validation error for the row of T1
C11_Witness ==
  /\ sh.state = "returned" /\ sh.ret.exc = "none"
  /\ sh.sheet.rows[2]["Tag Number"] = S("X9")
  /\ sh.sheet.rows[2]["Cnt"] = S("abc")
  /\ Len(sh.ret.validation_errors) = 1
  /\ sh.ret.validation_errors[1].tag_number = "T1"

\* the targets of column_mapping
MappingTargets(cfg) == {cfg.column_mapping[h] : h \in DOMAIN cfg.column_mapping}

\* the fields of the changesets and the headers of the validation errors
\* that a call returned
ReturnedColumns(ret) ==
  UNION {DOMAIN ret.updates[j].changes : j \in 1..Len(ret.updates)}
  \cup {ret.validation_errors[j].excel_header : j \in 1..Len(ret.validation_errors)}

\* C12 as stated: a changeset field or validation error header is a target
\* of column_mapping and is not in ignored_headers.
C12_OnlyMappedColumns ==
  (sh.state # "called" /\ sh.ret.exc = "none") =>
    \A c \in ReturnedColumns(sh.ret) :
      c \in MappingTargets(sh.cfg) /\ c \notin sh.cfg.ignored_headers

\* C12 as the code has it: a changeset field or validation error header is
\* the canonical name of a sheet column (the mapped name, or the cleaned
\* header itself when it is not mapped), a column of the store and not in
\* ignored_headers; a validation error's header is a numeric column.
C12_ColumnScoping ==
  (sh.state # "called" /\ sh.ret.exc = "none") =>
    /\ \A c \in ReturnedColumns(sh.ret) :
         /\ c \in {Canon(sh.cfg, h) : h \in sh.sheet.headers}
         /\ c \in sh.cfg.sql_columns
         /\ c \notin sh.cfg.ignored_headers
    /\ \A j \in 1..Len(sh.ret.validation_errors) :
         sh.ret.validation_errors[j].excel_header \in Range(sh.cfg.numeric_columns)

\* Note is ignored and differs from the store, the table has no column
\* Remark, Cnt is in scope and differs: the changeset of T2 has Count only
C12_Witness ==
  /\ sh.state = "returned" /\ sh.ret.exc = "none"
  /\ "Note" \in sh.cfg.ignored_headers
  /\ sh.sheet.rows[2]["Tag Number"] = S("T2 ")
  /\ sh.sheet.rows[2]["Note"] = S("new")
  /\ "Remark" \in sh.sheet.headers
  /\ \E j \in 1..Len(sh.ret.updates) :
       /\ sh.ret.updates[j].tag = "T2"
       /\ DOMAIN sh.ret.updates[j].changes = {"Count"}

\* the changesets of a key among the updates
UpdatesOf(updates, tag) == {j \in 1..Len(updates) : updates[j].tag = tag}

\* what holds of the value of one process_sheet call
NonEmptyChangesets(ret, tags) ==
  ret.exc = "none" =>
    /\ \A j \in 1..Len(ret.updates) : DOMAIN ret.updates[j].changes # {}
    /\ ret.sheet_result.update_count = Len(ret.updates)
    /\ \A tag \in Range(tags) :
         Cardinality(UpdatesOf(ret.updates, tag))
           <= Cardinality({j \in 1..Len(tags) : tags[j] = tag})
    /\ Len(ret.updates) <= Len(tags)

\* C13: every changeset process_sheet returns has a field, update_count is
\* the number of changesets, there are no more changesets than filtered
\* rows, and batch_update_records is handed no changeset that it skips.
C13_ChangesetsNotEmpty ==
  /\ sh.state # "called" => NonEmptyChangesets(sh.ret, sh.tags)
  /\ sh.state = "again" => NonEmptyChangesets(sh.ret2, sh.tags)
  /\ sh.state \in {"applied", "failed", "again"} =>
       Statements(sh.ret.updates) = sh.ret.updates

\* two filtered rows with reference records, one of them with no differing
\* field: one changeset, which was applied
C13_Witness ==
  /\ sh.state = "applied"
  /\ Len(sh.tags) = 2
  /\ sh.tags[1] # sh.tags[2]
  /\ Len(sh.sql_data.rows) = 2
  /\ Len(sh.ret.updates) = 1
  /\ sh.ret.sheet_result.update_count = 1

\* the rows of a sheet whose trimmed key is a key
RowsOf(sheet, tag) ==
  {j \in 1..Len(sheet.rows) : Strip(AsStr(sheet.rows[j]["Tag Number"])) = tag}

\* C14: for every row that passed key filtering whose cell under Cnt (the
\* numeric column Count, in scope) is neither blank nor a number, there is
\* exactly one validation error with the sheet, the key, the header Count,
\* the cell's content and the type mismatch reason, and no changeset of that
\* key has the field Count.
C14_TypeMismatchCapture ==
  (sh.state # "called" /\ sh.ret.exc = "none" /\ "Count" \notin sh.cfg.ignored_headers) =>
    \A tag \in sh.existing_tags :
      \A j \in RowsOf(sh.sheet, tag) :
        LET cell == sh.sheet.rows[j]["Cnt"]
        IN  (cell.k = "str" /\ cell.s # "" /\ ToNumeric(cell).k = "nan") =>
              /\ Cardinality(RowsOf(sh.sheet, tag)) = 1 =>
                   /\ Cardinality({m \in 1..Len(sh.ret.validation_errors) :
                          sh.ret.validation_errors[m]
                            = ValidationError(sh.sheet.name, tag, "Count", cell)}) = 1
                   /\ Cardinality({m \in 1..Len(sh.ret.validation_errors) :
                          /\ sh.ret.validation_errors[m].tag_number = tag
                          /\ sh.ret.validation_errors[m].excel_header = "Count"}) = 1
                   /\ \A m \in UpdatesOf(sh.ret.updates, tag) :
                        "Count" \notin DOMAIN sh.ret.updates[m].changes

DistinctKeys(tags) == \A i, j \in 1..Len(tags) : i # j => tags[i] # tags[j]

RECURSIVE CommittedStore(_, _, _)
CommittedStore(table, events, n) ==
  IF n = 0 THEN table
  ELSE LET before == CommittedStore(table, events, n - 1)
           stmts == Statements(events[n].updates)
       IN  IF events[n].batch_committed
           THEN Executed(DbConfig.tag_column, before, stmts, Len(stmts)).store
           ELSE before

\* the run in progress or the one that ended, with the store it started on
Progress ==
  IF pc = "sheets"
  THEN [real |-> ~run.dry_run, store0 |-> run.store0, events |-> run.events]
  ELSE [real |-> last.valid /\ ~last.dry_run, store0 |-> last.store0,
        events |-> IF last.reached_sheets THEN last.events ELSE <<>>]

StageOrder == <<"load_config", "connect", "metadata", "tags", "open_excel", "sheets">>

StageSteps ==
  {<<"idle", StageOrder[1]>>}
  \cup {<<StageOrder[j], StageOrder[j + 1]>> : j \in 1..(Len(StageOrder) - 1)}
  \cup {<<StageOrder[j], "idle">> : j \in 1..Len(StageOrder)}

\* C18: a run goes through its stages in the one order; it leaves a stage
\* for the next one or ends; it ends with success only from the loop over
\* the sheets; and a run that ends in the loading of the configuration has
\* not touched the connection or the store.
C18_StageOrdering ==
  [][ /\ pc' # pc => <<pc, pc'>> \in StageSteps
      /\ (pc' = "idle" /\ pc # "idle" /\ last'.result.success) => pc = "sheets"
      /\ (pc = "load_config" /\ pc' = "idle") =>
           /\ last'.result.error_message = "Configuration Error"
           /\ connection' = connection /\ open_conns' = open_conns /\ store' = store
      /\ (pc = "idle" /\ pc' # "idle") =>
           (connection' = connection /\ open_conns' = open_conns) ]_vars

\* the first run of a service ended with a configuration error and no
\* connection was opened
C18_Witness ==
  /\ last.valid /\ runs = 1
  /\ ~last.result.success
  /\ last.result.error_message = "Configuration Error"
  /\ connection = 0 /\ open_conns = 0

\* a run ended with the result of the except clause for the store's errors
AbortedByDatabaseError(r) ==
  /\ r.valid /\ ~r.raised /\ ~r.reached_sheets
  /\ ~r.result.success
  /\ r.result.error_message = "Database Error"
  /\ r.result.sheet_results = <<>>

\* the step ends the run in introspection or in the fetch of the key set,
\* where only a DatabaseQueryError ends it
QueryAbortStep == pc \in {"metadata", "tags"} /\ pc' = "idle"

\* a run that came to its end after the loop over the sheets returned
\* success = true, and every sheet whose update step raised has status ERROR
UpdateFailureIsRecorded ==
  (last.valid /\ last.reached_sheets) =>
    /\ last.result.success /\ ~last.raised
    /\ Len(last.result.sheet_results) = Len(last.events)
    /\ \A j \in 1..Len(last.events) :
         last.events[j].failed_in = "update" =>
           last.result.sheet_results[j].status = "ERROR"

SheetNamed(wb, name) == wb[CHOOSE j \in 1..Len(wb) : wb[j].name = name]

\* the validation errors process_sheet produces for a sheet when it comes to
\* its validation step: the sheet has the tag column and rows with known tags
ProducedErrors(cfg, sheet, existing_tags) ==
  LET loaded == LoadFrame(cfg, sheet)
      df == FilterTags(cfg, loaded, existing_tags)
      valid == valid_columns(cfg, df)
      selected == [cols |-> valid \cup {cfg.tag_column},
                   rows |-> [i \in 1..Len(df.rows) |->
                               [c \in valid \cup {cfg.tag_column} |-> df.rows[i][c]]]]
  IN  IF cfg.tag_column \notin loaded.cols \/ df.rows = <<>> THEN <<>>
      ELSE validate_numeric_columns(cfg, selected, sheet.name).errors

\* C20: every validation error produced for a sheet whose first read
\* succeeded is in the result's validation_errors, whatever the sheet's
\* status is.
C20_ValidationErrorsCollected ==
  (last.valid /\ last.reached_sheets) =>
    \A j \in 1..Len(last.events) :
      LET ev == last.events[j]
          cfg == ProcessorConfig(last.file, StoreCols, NumericCols)
          produced == ProducedErrors(cfg, SheetNamed(last.wb, ev.name),
                                     get_existing_tags(DbConfig.tag_column, last.store0))
      IN  ~(ev.failed_in = "load" /\ ev.passes = 1) =>
            \A m \in 1..Len(produced) :
              \E n \in 1..Len(last.result.validation_errors) :
                last.result.validation_errors[n] = produced[m]

InFlight == {w \in 1..Len(gui.workers) : gui.workers[w].state # "returned"}

\* C22: at most one run_import call is in flight, and none while the
\* buttons are enabled; a run calls connect at most once, and its gateway
\* calls use the connection that connect returned, which is the manager's
\* and is open; the connection of the connection test is another one.
C22_ConnectionNotShared ==
  /\ Cardinality(InFlight) <= 1
  /\ gui.buttons = "normal" => InFlight = {}
  /\ \A w \in 1..Len(gui.workers) :
       LET wk == gui.workers[w]
       IN  /\ wk.connects <= 1
           /\ wk.state \in {"connected", "in_call"} =>
                /\ wk.connects = 1
                /\ wk.conn # 0
                /\ wk.conn = gui.manager_connection
                /\ wk.conn \in gui.open
                /\ \A v \in 1..Len(gui.workers) : v # w => gui.workers[v].conn # wk.conn
           /\ gui.test.state = "open" => gui.test.conn # wk.conn
  /\ gui.test.state = "open" =>
       (gui.test.conn \in gui.open /\ gui.test.conn # gui.manager_connection)

\* the second run of the window is in a gateway call while the connection
\* test holds its own connection
C22_Witness ==
  /\ Len(gui.workers) = 2
  /\ gui.workers[1].state = "returned" /\ gui.workers[1].connects = 1
  /\ gui.workers[2].state = "in_call"
  /\ gui.test.state = "open"

\* no header of the sheet is rewritten to the key column
KeyColumnAbsent(cfg, sheet) ==
  \A h \in sheet.headers : Canon(cfg, h) # cfg.tag_column

\* no row of the sheet has a key whose trimmed string is a known key
NoKnownKey(cfg, sheet, known_keys) ==
  \A i \in 1..Len(sheet.rows) :
    \A h \in sheet.headers :
      Canon(cfg, h) = cfg.tag_column =>
        Strip(AsStr(sheet.rows[i][h])) \notin known_keys

\* what C23 says of the sheets that a run has come through
SkipOutcomes(wb, file, store0, events, sheet_results, validation_errors) ==
  \A j \in 1..Len(events) :
    LET ev == events[j]
        sheet == SheetNamed(wb, ev.name)
        cfg == ProcessorConfig(file, StoreCols, NumericCols)
        known_keys == get_existing_tags(DbConfig.tag_column, store0)
    IN  (/\ ev.failed_in # "load"
         /\ KeyColumnAbsent(cfg, sheet) \/ NoKnownKey(cfg, sheet, known_keys))
        => /\ sheet_results[j].status = "SKIP"
           /\ sheet_results[j].update_count = 0
           /\ sheet_results[j].result =
                (IF KeyColumnAbsent(cfg, sheet) THEN "Tag Column Missing"
                 ELSE "No Valid Tags")
           /\ ev.updates = <<>>
           /\ ev.passes = 1 /\ ~ev.fetched /\ ~ev.batch_called
           /\ \A n \in 1..Len(validation_errors) :
                validation_errors[n].sheet_name # ev.name

\* C23: a sheet without the key column, or without a row whose trimmed key
\* is known, gets status SKIP with no changeset and no validation error,
\* and neither the reference fetch nor an update is issued for it.
C23_SkipOutcomes ==
  /\ pc = "sheets" =>
       SkipOutcomes(run.wb, run.file, run.store0, run.events, run.sheet_results,
                    run.all_validation_errors)
  /\ (last.valid /\ last.reached_sheets) =>
       SkipOutcomes(last.wb, last.file, last.store0, last.events,
                    last.result.sheet_results, last.result.validation_errors)

\* a real run came through a sheet without the key column and a sheet
\* without a known key, both read and both skipped, and the store is as
\* it was
C23_Witness ==
  /\ last.valid /\ last.reached_sheets /\ ~last.dry_run
  /\ Len(last.events) = 3
  /\ last.events[1].name = "Spare" /\ last.events[1].failed_in = "none"
  /\ last.result.sheet_results[1].result = "Tag Column Missing"
  /\ last.events[2].name = "Sensors" /\ last.events[2].failed_in = "none"
  /\ last.result.sheet_results[2].result = "No Valid Tags"
  /\ store = last.store0

\* ceil(n / c)
CeilDiv(n, c) == (n + c - 1) \div c

\* the rows of the queries' results, one query after the other
RECURSIVE RowsOfQueries(_, _)
RowsOfQueries(queries, j) ==
  IF j > Len(queries) THEN <<>>
  ELSE SelectIn(DbConfig.tag_column, store, queries[j]) \o RowsOfQueries(queries, j + 1)

\* C24: a call that returned has issued ceil(n / c) queries, each with at
\* least one and at most c tags; the queries' tags, one query after the
\* other, are the list of tags, so that every element of the list is in
\* exactly one query; the result is the concatenation of the queries'
\* results; without tags there is no query and the result is empty.  While
\* the call runs it has issued no more queries than that.
C24_ChunkedFetch ==
  LET n == Len(fq.tags)
      c == fq.batch_size
  IN  /\ fq.state # "unused" =>
           /\ Len(fq.queries) <= CeilDiv(n, c)
           /\ \A q \in 1..Len(fq.queries) :
                Len(fq.queries[q]) >= 1 /\ Len(fq.queries[q]) <= c
      /\ fq.state = "returned" =>
           /\ Len(fq.queries) = CeilDiv(n, c)
           /\ Concat(fq.queries, 1) = fq.tags
           /\ n = 0 => (fq.queries = <<>> /\ fq.result = EmptyFrame)
           /\ n > 0 =>
                /\ fq.result.cols = StoreCols
                /\ fq.result.rows = InferRows(RowsOfQueries(fq.queries, 1), StoreCols)
           /\ fq.result = fetch_records_by_tags(DbConfig.tag_column, StoreCols, store,
                                                fq.tags, fq.batch_size)

\* four tags in chunks of three: two queries, the second with one tag, and
\* rows of both in the result
C24_Witness ==
  /\ fq.state = "returned"
  /\ fq.tags = <<"T1", "X9", "X9", "T2">> /\ fq.batch_size = 3
  /\ fq.queries = << <<"T1", "X9", "X9">>, <<"T2">> >>
  /\ Len(fq.result.rows) = 2

\* the rows of a table whose key is the changeset's
MatchingRows(table, upd) ==
  {i \in 1..Len(table) : table[i][DbConfig.tag_column] = S(upd.tag)}

\* the sum of the rows affected by the changesets with changes from the
\* j-th on, and the table after them
RECURSIVE AffectedSum(_, _, _)
AffectedSum(table, updates, j) ==
  IF j > Len(updates) THEN 0
  ELSE (IF DOMAIN updates[j].changes = {} THEN 0
        ELSE Cardinality(MatchingRows(table, updates[j])))
       + AffectedSum(table, updates, j + 1)

RECURSIVE TableAfter(_, _, _)
TableAfter(table, updates, j) ==
  IF j > Len(updates) THEN table
  ELSE TableAfter([i \in 1..Len(table) |->
                     IF i \in MatchingRows(table, updates[j])
                     THEN [c \in DOMAIN table[i] |->
                             IF c \in DOMAIN updates[j].changes
                             THEN updates[j].changes[c] ELSE table[i][c]]
                     ELSE table[i]],
                  updates, j + 1)

\* C25: a call that committed returns the sum of the rows affected by its
\* changesets, a changeset whose key is in no row counting zero, and the
\* table holds the changes of all the others; while the call runs its count
\* is the sum over the statements executed.
C25_RowsAffected ==
  /\ db.state = "committed" =>
       /\ db.updated_count = AffectedSum(db.store0, db.updates, 1)
       /\ db.committed = TableAfter(db.store0, db.updates, 1)
       /\ store = db.committed
  /\ db.state = "running" =>
       db.updated_count =
         AffectedSum(db.store0, SubSeq(Statements(db.updates), 1, db.k), 1)

\* a call with a changeset for a key that is in no row, before one for a
\* key that is: it committed, returned 1 and the table changed
C25_Witness ==
  /\ db.state = "committed"
  /\ Len(db.updates) = 2
  /\ db.updates[1].tag = "X9" /\ DOMAIN db.updates[1].changes # {}
  /\ db.updates[2].tag = "T2"
  /\ db.updated_count = 1
  /\ db.committed # db.store0

\* the frame process_sheet compares: the retained rows, selected, validated
\* and cleaned
ComparedFrame(cfg, sheet, existing_tags) ==
  LET df == FilterTags(cfg, LoadFrame(cfg, sheet), existing_tags)
      valid == valid_columns(cfg, df)
      selected == [cols |-> valid \cup {cfg.tag_column},
                   rows |-> [i \in 1..Len(df.rows) |->
                               [c \in valid \cup {cfg.tag_column} |-> df.rows[i][c]]]]
  IN  clean_dataframe(validate_numeric_columns(cfg, selected, sheet.name).df)

\* the positions of the reference records with the key
RefsOf(sql_df, tag) ==
  {j \in 1..Len(sql_df.rows) : sql_df.rows[j]["Tag Number"] = S(tag)}

\* the first of them
FirstRef(sql_df, tag) ==
  CHOOSE j \in RefsOf(sql_df, tag) : \A k \in RefsOf(sql_df, tag) : j <= k

\* the changesets that comparing each retained row with the first reference
\* record of its key gives, in row order
RECURSIVE ExpectedUpdates(_, _, _, _)
ExpectedUpdates(cfg, frame, sql_df, i) ==
  IF i > Len(frame.rows) THEN <<>>
  ELSE LET tag == frame.rows[i][cfg.tag_column].s
           cols == frame.cols \ {cfg.tag_column}
           differing ==
             IF RefsOf(sql_df, tag) = {} THEN {}
             ELSE {c \in cols :
                     compare_values(frame.rows[i][c],
                                    sql_df.rows[FirstRef(sql_df, tag)][c],
                                    cfg.float_threshold)}
       IN  (IF differing = {} THEN <<>>
            ELSE <<[tag |-> tag, changes |-> [c \in differing |-> frame.rows[i][c]]]>>)
           \o ExpectedUpdates(cfg, frame, sql_df, i + 1)

\* C26: the changesets of a call are those of comparing each retained row
\* with the first reference record of its key; a retained row whose key has
\* no reference record has no changeset; the call does not raise and returns
\* the validation errors of its validation step and no other.
C26_ReferenceMatching ==
  (sh.state = "returned" /\ sh.sql_data.cols # {}) =>
    LET frame == ComparedFrame(sh.cfg, sh.sheet, sh.existing_tags)
    IN  /\ sh.ret.exc = "none"
        /\ sh.ret.updates = ExpectedUpdates(sh.cfg, frame, sh.sql_data, 1)
        /\ \A j \in 1..Len(sh.ret.updates) :
             RefsOf(sh.sql_data, sh.ret.updates[j].tag) # {}
        /\ sh.ret.validation_errors =
             ProducedErrors(sh.cfg, sh.sheet, sh.existing_tags)

\* the reference frame holds T1 twice, first as the sheet has it and then
\* with other values, and has no record of T2; the sheet's rows T1 and T2,
\* T2 differing from the store, give no changeset
C26_Witness ==
  /\ sh.state = "returned"
  /\ sh.sql_data.cols # {}
  /\ Len(sh.sql_data.rows) = 2
  /\ sh.sql_data.rows[1]["Tag Number"] = S("T1")
  /\ sh.sql_data.rows[2]["Tag Number"] = S("T1")
  /\ sh.sql_data.rows[2]["Note"] = S("new")
  /\ sh.sheet.rows[2]["Tag Number"] = S("T2 ")
  /\ sh.sheet.rows[2]["Note"] = S("new")
  /\ sh.cfg.ignored_headers = {"Tag Number"}
  /\ sh.ret.exc = "none"
  /\ sh.ret.updates = <<>>

\* the rows affected by the batch updates that were committed among the
\* first n sheets of a run, each counted on the table as the sheets before
\* it left it
RECURSIVE CommittedRows(_, _, _)
CommittedRows(store0, events, n) ==
  IF n = 0 THEN 0
  ELSE CommittedRows(store0, events, n - 1)
       + (IF events[n].batch_committed
          THEN AffectedSum(CommittedStore(store0, events, n - 1), events[n].updates, 1)
          ELSE 0)

\* C27: the result of a run reports as total_committed_updates the rows
\* affected by the batch updates committed in the run, and a result with
\* success = false reports 0, has no sheet outcomes, and the table is as it
\* was when the run began.
C27_CommittedCount ==
  last.valid =>
    /\ last.result.success =>
         /\ last.reached_sheets
         /\ last.result.total_committed_updates =
              CommittedRows(last.store0, last.events, Len(last.events))
         /\ last.dry_run => last.result.total_committed_updates = 0
    /\ ~last.result.success =>
         /\ last.result.total_committed_updates = 0
         /\ last.result.sheet_results = <<>>
         /\ last.events = <<>>
         /\ store = last.store0

\* a real run with a sheet whose update was rolled back and a sheet whose
\* update was committed: the result counts the second only
C27_Witness ==
  /\ last.valid /\ last.result.success /\ ~last.dry_run
  /\ \E j \in 1..Len(last.events), m \in 1..Len(last.events) :
       /\ last.events[j].failed_in = "update" /\ Len(last.events[j].updates) >= 1
       /\ last.events[m].batch_committed
  /\ last.result.total_committed_updates >= 1
  /\ last.result.total_committed_updates < last.result.total_detected_updates

\* the sum of update_count over the first n sheet outcomes
RECURSIVE SumUpdateCount(_, _)
SumUpdateCount(sheet_results, n) ==
  IF n = 0 THEN 0
  ELSE SumUpdateCount(sheet_results, n - 1) + sheet_results[n].update_count

C29_KeyColumnNotUpdated ==
  /\ \A j \in 1..Len(sh.ret.updates) :
       sh.cfg.tag_column \notin DOMAIN sh.ret.updates[j].changes
  /\ \A j \in 1..Len(sh.ret2.updates) :
       sh.cfg.tag_column \notin DOMAIN sh.ret2.updates[j].changes
  /\ sh.state # "unused" =>
       /\ Len(store) = Len(sh.store0)
       /\ \A i \in 1..Len(store) :
            store[i][sh.cfg.tag_column] = sh.store0[i][sh.cfg.tag_column]

\* the sheet's key 'T2 ' differs from the table's key by a trailing blank,
\* the row's changeset was applied, and it names the trimmed key only as
\* the key of the row
C29_Witness ==
  /\ sh.state = "applied"
  /\ sh.sheet.rows[2]["Tag Number"] = S("T2 ")
  /\ \E j \in 1..Len(sh.ret.updates) :
       /\ sh.ret.updates[j].tag = "T2"
       /\ DOMAIN sh.ret.updates[j].changes = {"Count", "Note"}
  /\ store # sh.store0
=============================================================================
